---- MODULE Spec2Model ----
(***************************************************************************)
(* Model of the sandbox daemon of mbid/sandbox:                            *)
(*   - src/src/daemon.rs : connect_or_launch (client side), bind_socket,   *)
(*     run_daemon_with_sync (accept loop, liveness sweep, sync, teardown)  *)
(*   - src/src/git.rs    : the three fetches used for synchronisation      *)
(*   - src/src/sync.rs   : the standalone sync loop run_sync_daemon        *)
(* Processes are OS processes; every action is one system call or one      *)
(* blocking call of the code, so that the interleavings of racing clients  *)
(* and daemons are the ones the operating system can produce.              *)
(***************************************************************************)
EXTENDS Integers, Sequences, FiniteSets, TLC

\* ---------------------------------------------------------------- bounds
NumClients == 2
MaxCommits == 4
MaxEvents == 2
\* horizon of the wall clock, in polls of the sync loop
MaxTicks == 12
\* longest string in a request of the wire protocol
MaxStrLen == 2
\* sandbox names of one repository
NumSandboxes == 2
\* processes that run run_sandbox on one sandbox
NumProcs == 2

Clients == 1..NumClients
\* connect_or_launch spawns at most one daemon per call (daemon.rs:157)
Daemons == 1..NumClients
Commits == 1..MaxCommits

\* what a path of the file system names
NoFile == 0
StaleIno == 0 - 1
\* a ref that does not exist
NoRef == 0
\* sandbox.json does not exist
NoJson == 0 - 1
\* the second sandbox before its first ensure_sandbox: no directory, no
\* clone, no sandbox.json
NoSandbox == [st |-> "absent", main |-> NoRef, remote |-> "none",
              created_at |-> NoJson, result |-> "none"]

VARIABLES
    \* file system: what /tmp/sandbox/<hash>.sock and <hash>.sock.tmp name:
    \* NoFile, the socket inode bound by daemon d, or a dead process' inode
    sock_file, tmp_file,
    \* daemon processes
    spawned,            \* number of daemon processes spawned so far
    d_pc,               \* position of each daemon process
    d_exit,             \* how the process returned ("none" while it runs)
    listening,          \* the UnixListener of d is open
    backlog,            \* connections made to d's listener, not yet accepted
    pending_clients,    \* daemon.rs:366
    clients,            \* daemon.rs:365
    container_started,  \* daemon.rs:368
    watching,           \* the file watcher of d is armed (daemon.rs:445)
    rx,                 \* d's watcher channel (daemon.rs:371)
    pending_sync,       \* daemon.rs:378
    unsynced,           \* whether the watcher of d has delivered a non-access
                        \* event since d's last sync attempt started: "none",
                        \* or "before_final" / "after_final" by whether the
                        \* final sync had started when it was delivered
    start_calls,        \* invocations of start_container by d
    stop_calls,         \* invocations of docker::stop_container by d
    stops,              \* the calls of docker::stop_container so far: the
                        \* state they found, docker's exit status, the result
    \* the container keyed by container_name
    container_running,
    \* client processes
    c_pc,               \* position of each client in connect_or_launch
    conn,               \* daemon at the other end of the client's stream
    written,            \* bytes the daemon wrote to the client's stream
    srv_open,           \* the daemon's end of the stream is open
    cli_open,           \* the client's end of the stream is open
    handshake_failed,   \* the daemon whose ready signal the client waited
                        \* for in vain at daemon.rs:141-147 (0: none)
    \* git: commit graph and the refs of the three repositories
    parent, n_commits,
    clone_ref,          \* sandbox clone  refs/heads/<name>
    meta_ref,           \* meta.git       refs/heads/<name>
    host_remote_ref,    \* host           refs/remotes/sandbox/<name>
    host_main,          \* host           refs/heads/<primary>
    meta_main,          \* meta.git       refs/heads/<primary>
    \* standalone sync loop (sync.rs)
    sd_pc, sd_rx, sd_pending_sync,
    clock,              \* the wall clock (Instant::now()), in milliseconds
    sd_now,             \* sync.rs:97
    sd_last_sync,       \* sync.rs:71
    sd_pending_since,   \* clock reading when pending_sync last became true
    \* second sandbox created by ensure_sandbox (sandbox.rs)
    sb2,
    \* one request/response exchange of daemon_protocol.rs
    wire,
    \* what exists of each sandbox of the repository and of what they share
    store,
    \* the processes of run_sandbox attached to one sandbox (sandbox.rs)
    att,
    \* two sandboxes' SandboxInfo and the refs the hub syncs write
    naming

lifeVars == <<sock_file, tmp_file, spawned, d_pc, d_exit, listening, backlog,
              pending_clients, clients, container_started, watching,
              start_calls, stop_calls, stops, container_running,
              c_pc, conn, handshake_failed, written, srv_open, cli_open, handshake_failed>>
syncVars == <<rx, pending_sync, unsynced>>
gitVars == <<parent, n_commits, clone_ref, meta_ref, host_remote_ref,
             host_main, meta_main>>
sdVars == <<sd_pc, sd_rx, sd_pending_sync, clock, sd_now, sd_last_sync,
           sd_pending_since>>
vars == <<lifeVars, syncVars, gitVars, sdVars, sb2, wire, store, att, naming>>

\* ------------------------------------------------------------------- git
\* a is b or an ancestor of b in the commit graph
RECURSIVE IsAncestor(_, _)
IsAncestor(a, b) ==
    IF b = NoRef THEN FALSE
    ELSE IF a = b THEN TRUE
    ELSE IsAncestor(a, parent[b])

\* `git fetch <repo> <src>:<dst>` with no leading `+` and no --force: the
\* destination is created or fast-forwarded; any other update is rejected
\* and git exits non-zero, leaving the destination as it was
FetchOk(src, dst) == src # NoRef /\ (dst = NoRef \/ IsAncestor(dst, src))
FetchResultFetchHeadOnly(src, dst) == dst
FetchResult(src, dst) == IF FetchOk(src, dst) THEN src ELSE dst

\* git.rs: the new value of the destination ref, and whether the call is Ok
sync_sandbox_to_meta == FetchResult(clone_ref, meta_ref)
sync_sandbox_to_meta_ok == FetchOk(clone_ref, meta_ref)
sync_meta_to_host == FetchResult(meta_ref, host_remote_ref)
sync_meta_to_host_ok == FetchOk(meta_ref, host_remote_ref)
sync_main_to_meta_from_clone == FetchResult(clone_ref, meta_main)
sync_main_to_meta == FetchResult(host_main, meta_main)
sync_main_to_meta_ok == FetchOk(host_main, meta_main)

\* ---------------------------------------------------------- file system
\* UnixStream::connect(path) succeeds iff the path names the socket inode
\* of a listener that is still open
Connectable(f) == f \in Daemons /\ listening[f]

\* The advisory lock daemon.lock: run_daemon_with_sync and connect_or_launch
\* never open, lock or unlock such a file (daemon.rs:72 leaves it as a TODO),
\* so no process ever holds it
LockHolders == {}

\* the client's end of c's stream is open: a read on the daemon's end would
\* block; once it is closed the read returns EOF
Open(c) == cli_open[c]

\* ------------------------------------------------------ daemon processes
LoopPcs == {"accept", "start", "watch", "sweep", "sync", "sync_s2m",
            "sync_m2h", "sync_main"}
TeardownPcs == {"final_s2m", "final_m2h", "stop", "cleanup"}

\* the process returns: the kernel closes its listener and all its streams
ProcessExit(d, reason) ==
    /\ d_pc' = [d_pc EXCEPT ![d] = "exited"]
    /\ d_exit' = [d_exit EXCEPT ![d] = reason]
    /\ listening' = [listening EXCEPT ![d] = FALSE]
    /\ backlog' = [backlog EXCEPT ![d] = <<>>]
    /\ pending_clients' = [pending_clients EXCEPT ![d] = <<>>]
    /\ clients' = [clients EXCEPT ![d] = <<>>]
    /\ watching' = [watching EXCEPT ![d] = FALSE]
    /\ rx' = [rx EXCEPT ![d] = <<>>]
    /\ pending_sync' = [pending_sync EXCEPT ![d] = FALSE]
    /\ UNCHANGED unsynced
    /\ srv_open' = [c \in Clients |-> IF conn[c] = d THEN FALSE ELSE srv_open[c]]

exitVars == <<d_pc, d_exit, listening, backlog, pending_clients, clients,
              watching, rx, pending_sync, unsynced, srv_open>>

\* bind_socket, daemon.rs:42: remove a stale temp socket, whatever it names
BindRemoveStale(d) ==
    /\ d_pc[d] = "rm_stale"
    /\ tmp_file' = NoFile
    /\ d_pc' = [d_pc EXCEPT ![d] = "bind"]
    /\ UNCHANGED <<sock_file, spawned, d_exit, listening, backlog,
                   pending_clients, clients, container_started, watching,
                   start_calls, stop_calls, stops, container_running, c_pc, conn, handshake_failed,
                   written, srv_open, cli_open, syncVars, gitVars, sdVars, sb2, wire, store, att, naming>>

\* bind_socket, daemon.rs:44-50: UnixListener::bind(temp_path); EADDRINUSE
\* when the temp path exists, and the error is returned with `?`
BindTemp(d) ==
    /\ d_pc[d] = "bind"
    /\ IF tmp_file = NoFile
       THEN /\ tmp_file' = d
            /\ listening' = [listening EXCEPT ![d] = TRUE]
            /\ d_pc' = [d_pc EXCEPT ![d] = "link"]
            /\ UNCHANGED <<d_exit, backlog, pending_clients, clients,
                           watching, rx, pending_sync, unsynced, srv_open>>
       ELSE /\ ProcessExit(d, "err_bind")
            /\ UNCHANGED tmp_file
    /\ UNCHANGED <<sock_file, spawned, container_started, start_calls,
                   stop_calls, stops, container_running, c_pc, conn, handshake_failed, written,
                   cli_open, gitVars, sdVars, sb2, wire, store, att, naming>>

\* bind_socket, daemon.rs:53 with rename(temp_path, sock_path) in the place
\* of hard_link: rename replaces whatever the public path names
BindRename(d) ==
    /\ d_pc[d] = "link"
    /\ IF tmp_file = NoFile
       THEN /\ d_pc' = [d_pc EXCEPT ![d] = "unlink_err"]
            /\ UNCHANGED sock_file
       ELSE /\ sock_file' = tmp_file
            /\ d_pc' = [d_pc EXCEPT ![d] = "unlink_ok"]
    /\ UNCHANGED <<tmp_file, spawned, d_exit, listening, backlog,
                   pending_clients, clients, container_started, watching,
                   start_calls, stop_calls, stops, container_running, c_pc, conn, handshake_failed,
                   written, srv_open, cli_open, syncVars, gitVars, sdVars, sb2, wire, store, att, naming>>

\* bind_socket, daemon.rs:53: hard_link(temp_path, sock_path) publishes the
\* inode the temp path names at this moment
BindHardLink(d) ==
    /\ d_pc[d] = "link"
    /\ IF tmp_file = NoFile
       THEN \* ENOENT: "Failed to publish socket" (daemon.rs:64-67)
            /\ d_pc' = [d_pc EXCEPT ![d] = "unlink_err"]
            /\ UNCHANGED sock_file
       ELSE IF sock_file # NoFile
       THEN \* AlreadyExists: another daemon was faster (daemon.rs:58-63)
            /\ d_pc' = [d_pc EXCEPT ![d] = "unlink_lost"]
            /\ UNCHANGED sock_file
       ELSE /\ sock_file' = tmp_file
            /\ d_pc' = [d_pc EXCEPT ![d] = "unlink_ok"]
    /\ UNCHANGED <<tmp_file, spawned, d_exit, listening, backlog,
                   pending_clients, clients, container_started, watching,
                   start_calls, stop_calls, stops, container_running, c_pc, conn, handshake_failed,
                   written, srv_open, cli_open, syncVars, gitVars, sdVars, sb2, wire, store, att, naming>>

\* bind_socket, daemon.rs:55/60/65: remove_file(temp_path) on every branch;
\* on Ok the listener is returned and the accept loop is entered
\* (daemon.rs:345-380), otherwise run_daemon_with_sync returns the error
BindRemoveTemp(d) ==
    /\ d_pc[d] \in {"unlink_ok", "unlink_lost", "unlink_err"}
    /\ tmp_file' = NoFile
    /\ IF d_pc[d] = "unlink_ok"
       THEN /\ d_pc' = [d_pc EXCEPT ![d] = "accept"]
            /\ UNCHANGED <<d_exit, listening, backlog, pending_clients,
                           clients, watching, rx, pending_sync, unsynced, srv_open>>
       ELSE ProcessExit(d, IF d_pc[d] = "unlink_lost" THEN "err_lost"
                                                     ELSE "err_publish")
    /\ UNCHANGED <<sock_file, spawned, container_started, start_calls,
                   stop_calls, stops, container_running, c_pc, conn, handshake_failed, written,
                   cli_open, gitVars, sdVars, sb2, wire, store, att, naming>>

\* the ready signal `write_all(&[0u8])` (daemon.rs:394, 422) succeeds iff the
\* peer has not closed; a stream whose write failed is dropped
AckWritten(w, cs) == [c \in Clients |-> IF c \in cs /\ Open(c) THEN Append(w[c], 0) ELSE w[c]]
AckDropped(so, cs) == [c \in Clients |-> IF c \in cs /\ ~Open(c) THEN FALSE ELSE so[c]]
Range(s) == {s[i] : i \in DOMAIN s}

\* daemon.rs:392-403: what the loop does with an accepted stream
AcceptBranchNoStartedCheck(d) ==
    IF pending_clients[d] = <<>> THEN "start" ELSE "queue"
AcceptBranch(d) ==
    IF container_started[d] THEN "ack"
    ELSE IF pending_clients[d] = <<>> THEN "start" ELSE "queue"

\* accept loop, daemon.rs:382-407 and 456: one non-blocking accept
DaemonAccept(d) ==
    /\ d_pc[d] = "accept"
    /\ IF backlog[d] = <<>>
       THEN \* WouldBlock
            /\ d_pc' = [d_pc EXCEPT ![d] = "sweep"]
            /\ UNCHANGED <<backlog, pending_clients, clients, written, srv_open>>
       ELSE LET c == Head(backlog[d]) IN
            /\ backlog' = [backlog EXCEPT ![d] = Tail(@)]
            /\ IF AcceptBranch(d) = "ack"
               THEN \* container already running: ready signal immediately
                    /\ written' = AckWritten(written, {c})
                    /\ srv_open' = AckDropped(srv_open, {c})
                    /\ clients' = [clients EXCEPT ![d] =
                                     IF Open(c) THEN Append(@, c) ELSE @]
                    /\ d_pc' = [d_pc EXCEPT ![d] = "sweep"]
                    /\ UNCHANGED pending_clients
               ELSE \* queue the client until the container is ready
                    /\ pending_clients' = [pending_clients EXCEPT ![d] = Append(@, c)]
                    /\ d_pc' = [d_pc EXCEPT ![d] =
                                  IF AcceptBranch(d) = "start" THEN "start" ELSE "sweep"]
                    /\ UNCHANGED <<clients, written, srv_open>>
    /\ UNCHANGED <<sock_file, tmp_file, spawned, d_exit, listening,
                   container_started, watching, start_calls, stop_calls, stops,
                   container_running, c_pc, conn, handshake_failed, cli_open, syncVars,
                   gitVars, sdVars, sb2, wire, store, att, naming>>

\* daemon.rs:416-426: the container is up; the ready signal goes to every
\* queued client
StartSucceeded(d) ==
    /\ container_started' = [container_started EXCEPT ![d] = TRUE]
    /\ container_running' = TRUE
    /\ written' = AckWritten(written, Range(pending_clients[d]))
    /\ srv_open' = AckDropped(srv_open, Range(pending_clients[d]))
    /\ clients' = [clients EXCEPT ![d] = @ \o SelectSeq(pending_clients[d], Open)]
    /\ pending_clients' = [pending_clients EXCEPT ![d] = <<>>]
    /\ d_pc' = [d_pc EXCEPT ![d] = "watch"]
    /\ UNCHANGED <<sock_file, d_exit, listening, backlog, watching, rx, pending_sync, unsynced>>

\* daemon.rs:447-452: log, cleanup_socket(&sock_path), return Err(e); nothing
\* is written to the queued streams, the process exit closes them
StartFailedAfterAck(d) ==
    /\ sock_file' = NoFile
    /\ ProcessExit(d, "err_start")
    /\ written' = AckWritten(written, Range(pending_clients[d]))
    /\ UNCHANGED <<container_started, container_running>>
StartFailed(d) ==
    /\ sock_file' = NoFile
    /\ ProcessExit(d, "err_start")
    /\ UNCHANGED <<container_started, container_running, written>>

\* daemon.rs:408-415: the first queued client triggers start_container,
\* which blocks the loop until docker returns
DaemonStartContainer(d) ==
    /\ d_pc[d] = "start"
    /\ start_calls' = [start_calls EXCEPT ![d] = @ + 1]
    /\ \E ok \in BOOLEAN : IF ok THEN StartSucceeded(d) ELSE StartFailed(d)
    /\ UNCHANGED <<tmp_file, spawned, stop_calls, stops, c_pc, conn, handshake_failed, cli_open,
                   gitVars, sdVars, sb2, wire, store, att, naming>>

\* daemon.rs:428-445: create and arm the file watcher; both calls end in `?`
DaemonStartWatcher(d) ==
    /\ d_pc[d] = "watch"
    /\ \E ok \in BOOLEAN :
         IF ok
         THEN /\ watching' = [watching EXCEPT ![d] = TRUE]
              /\ d_pc' = [d_pc EXCEPT ![d] = "sweep"]
              /\ UNCHANGED <<d_exit, listening, backlog, pending_clients,
                             clients, rx, pending_sync, unsynced, srv_open>>
         ELSE ProcessExit(d, "err_watcher")
    /\ UNCHANGED <<sock_file, tmp_file, spawned, container_started,
                   start_calls, stop_calls, stops, container_running, c_pc, conn, handshake_failed,
                   written, cli_open, gitVars, sdVars, sb2, wire, store, att, naming>>

\* clients.retain_mut, daemon.rs:463-471: a client whose read returns EOF is
\* removed, one whose read would block is kept
RetainedKeepsAll(cs) == cs
RetainedDropsWouldBlock(cs) == SelectSeq(cs, LAMBDA c : FALSE)
Retained(cs) == SelectSeq(cs, Open)

\* daemon.rs:483-488: "No clients connected within timeout", then
\* cleanup_socket(&sock_path) and return Ok(())
FirstClientTimeoutKeepsSocket(d) ==
    /\ UNCHANGED sock_file
    /\ ProcessExit(d, "ok_timeout")
FirstClientTimeoutExit(d) ==
    /\ sock_file' = NoFile
    /\ ProcessExit(d, "ok_timeout")

\* daemon.rs:473-476 and 543: the break leaves the loop for the final sync
AfterBreakSkipsFinalSync == "stop"
AfterBreak == "final_s2m"

\* daemon.rs:492: `if container_started` around the whole sync section
SyncSectionUnguarded(d) == TRUE
SyncSection(d) == container_started[d]

\* daemon.rs:462-489: liveness sweep, then the two exit checks of the loop
DaemonSweep(d) ==
    /\ d_pc[d] = "sweep"
    /\ LET kept == Retained(clients[d])
           idle == kept = <<>> /\ pending_clients[d] = <<>>
       IN  IF container_started[d] /\ idle
           THEN \* "All clients disconnected, shutting down...": break
                /\ clients' = [clients EXCEPT ![d] = kept]
                /\ srv_open' = AckDropped(srv_open, Range(clients[d]))
                /\ d_pc' = [d_pc EXCEPT ![d] = AfterBreak]
                /\ UNCHANGED <<sock_file, d_exit, listening, backlog,
                               pending_clients, watching, rx, pending_sync, unsynced>>
           ELSE \E timed_out \in BOOLEAN :
                IF ~container_started[d] /\ idle /\ timed_out
                THEN \* start.elapsed() > FIRST_CLIENT_TIMEOUT
                     FirstClientTimeoutExit(d)
                ELSE /\ clients' = [clients EXCEPT ![d] = kept]
                     /\ srv_open' = AckDropped(srv_open, Range(clients[d]))
                     /\ d_pc' = [d_pc EXCEPT ![d] =
                                   IF SyncSection(d) THEN "sync" ELSE "accept"]
                     /\ UNCHANGED <<sock_file, d_exit, listening, backlog,
                                    pending_clients, watching, rx, pending_sync, unsynced>>
    /\ UNCHANGED <<tmp_file, spawned, container_started, start_calls,
                   stop_calls, stops, container_running, c_pc, conn, handshake_failed, written,
                   cli_open, gitVars, sdVars, sb2, wire, store, att, naming>>

\* daemon.rs:495 and sync.rs:82: !event.kind.is_access()
SetsPendingAnyEvent(kind) == TRUE
SetsPending(kind) == kind # "access"

\* daemon.rs:492-511: one try_recv on the watcher channel, then `now` is
\* taken; whether the debounce and the main-sync interval have elapsed
\* depends on the wall clock
DaemonSyncEvents(d) ==
    /\ d_pc[d] = "sync"
    /\ LET got == rx[d] # <<>> /\ SetsPending(Head(rx[d]))
           pend == pending_sync[d] \/ got
       IN  /\ rx' = [rx EXCEPT ![d] = IF @ = <<>> THEN @ ELSE Tail(@)]
           /\ pending_sync' = [pending_sync EXCEPT ![d] = pend]
           /\ UNCHANGED unsynced
           /\ \E debounced \in BOOLEAN, main_due \in BOOLEAN :
                d_pc' = [d_pc EXCEPT ![d] =
                           IF pend /\ debounced THEN "sync_s2m"
                           ELSE IF main_due THEN "sync_main" ELSE "accept"]
    /\ UNCHANGED <<sock_file, tmp_file, spawned, d_exit, listening, backlog,
                   pending_clients, clients, container_started, watching,
                   start_calls, stop_calls, stops, container_running, c_pc, conn, handshake_failed,
                   written, srv_open, cli_open, gitVars, sdVars, sb2, wire, store, att, naming>>

\* daemon.rs:512-518 (and 527-528 when the fetch fails)
DaemonSyncSandboxToMeta(d) ==
    /\ d_pc[d] = "sync_s2m"
    /\ meta_ref' = sync_sandbox_to_meta
    /\ unsynced' = [unsynced EXCEPT ![d] = "none"]
    /\ IF sync_sandbox_to_meta_ok
       THEN /\ d_pc' = [d_pc EXCEPT ![d] = "sync_m2h"]
            /\ UNCHANGED pending_sync
       ELSE /\ pending_sync' = [pending_sync EXCEPT ![d] = FALSE]
            /\ \E main_due \in BOOLEAN :
                 d_pc' = [d_pc EXCEPT ![d] = IF main_due THEN "sync_main" ELSE "accept"]
    /\ UNCHANGED <<sock_file, tmp_file, spawned, d_exit, listening, backlog,
                   pending_clients, clients, container_started, watching, rx,
                   start_calls, stop_calls, stops, container_running, c_pc, conn, handshake_failed,
                   written, srv_open, cli_open, parent, n_commits, clone_ref,
                   host_remote_ref, host_main, meta_main, sdVars, sb2, wire, store, att, naming>>

\* daemon.rs:519-529
DaemonSyncMetaToHost(d) ==
    /\ d_pc[d] = "sync_m2h"
    /\ host_remote_ref' = sync_meta_to_host
    /\ UNCHANGED unsynced
    /\ pending_sync' = [pending_sync EXCEPT ![d] = FALSE]
    /\ \E main_due \in BOOLEAN :
         d_pc' = [d_pc EXCEPT ![d] = IF main_due THEN "sync_main" ELSE "accept"]
    /\ UNCHANGED <<sock_file, tmp_file, spawned, d_exit, listening, backlog,
                   pending_clients, clients, container_started, watching, rx,
                   start_calls, stop_calls, stops, container_running, c_pc, conn, handshake_failed,
                   written, srv_open, cli_open, parent, n_commits, clone_ref,
                   meta_ref, host_main, meta_main, sdVars, sb2, wire, store, att, naming>>

\* daemon.rs:531-537, then the sleep at 540
DaemonSyncMain(d) ==
    /\ d_pc[d] = "sync_main"
    /\ meta_main' = sync_main_to_meta
    /\ d_pc' = [d_pc EXCEPT ![d] = "accept"]
    /\ UNCHANGED <<sock_file, tmp_file, spawned, d_exit, listening, backlog,
                   pending_clients, clients, container_started, watching,
                   start_calls, stop_calls, stops, container_running, c_pc, conn, handshake_failed,
                   written, srv_open, cli_open, syncVars, parent, n_commits,
                   clone_ref, meta_ref, host_remote_ref, host_main, sdVars, sb2, wire, store, att, naming>>

\* daemon.rs:543-549: final sync, sandbox -> meta.git
DaemonFinalSandboxToMeta(d) ==
    /\ d_pc[d] = "final_s2m"
    /\ meta_ref' = sync_sandbox_to_meta
    /\ unsynced' = [unsynced EXCEPT ![d] = "none"]
    /\ d_pc' = [d_pc EXCEPT ![d] =
                  IF sync_sandbox_to_meta_ok THEN "final_m2h" ELSE "stop"]
    /\ UNCHANGED <<sock_file, tmp_file, spawned, d_exit, listening, backlog,
                   pending_clients, clients, container_started, watching,
                   start_calls, stop_calls, stops, container_running, c_pc, conn, handshake_failed,
                   written, srv_open, cli_open, rx, pending_sync, parent, n_commits,
                   clone_ref, host_remote_ref, host_main, meta_main, sdVars, sb2, wire, store, att, naming>>

\* daemon.rs:550-555: final sync, meta.git -> host
DaemonFinalMetaToHost(d) ==
    /\ d_pc[d] = "final_m2h"
    /\ host_remote_ref' = sync_meta_to_host
    /\ d_pc' = [d_pc EXCEPT ![d] = "stop"]
    /\ UNCHANGED <<sock_file, tmp_file, spawned, d_exit, listening, backlog,
                   pending_clients, clients, container_started, watching,
                   start_calls, stop_calls, stops, container_running, c_pc, conn, handshake_failed,
                   written, srv_open, cli_open, syncVars, parent, n_commits,
                   clone_ref, meta_ref, host_main, meta_main, sdVars, sb2, wire, store, att, naming>>

\* `docker stop -t 0 <name>` (docker.rs:196-201): a running container is
\* stopped with exit status 0; for a container that is not running the
\* status is the engine's (0 for a stopped one, 1 when it has been removed)
DockerStopStatuses(running) == IF running THEN {0} ELSE {0, 1}

\* docker::stop_container, docker.rs:193-207: the exit status is not looked
\* at (203-206); Err only when the docker binary cannot be run
stop_container_checks_status(status) == IF status = 0 THEN "ok" ELSE "err"
stop_container(status) == "ok"

\* the call as it is logged in stops
StopCall(status) ==
    [was_running |-> container_running, status |-> status,
     result |-> stop_container(status)]

\* daemon.rs:557-560: docker::stop_container
DaemonStopContainerAfterCleanup(d) ==
    /\ d_pc[d] = "stop"
    /\ sock_file' = NoFile
    /\ \E status \in DockerStopStatuses(container_running) :
         stops' = Append(stops, StopCall(status))
    /\ container_running' = FALSE
    /\ stop_calls' = [stop_calls EXCEPT ![d] = @ + 1]
    /\ d_pc' = [d_pc EXCEPT ![d] = "cleanup"]
    /\ UNCHANGED <<tmp_file, spawned, d_exit, listening, backlog,
                   pending_clients, clients, container_started, watching,
                   start_calls, c_pc, conn, handshake_failed, written, srv_open, cli_open,
                   syncVars, gitVars, sdVars, sb2, wire, store, att, naming>>
DaemonStopContainer(d) ==
    /\ d_pc[d] = "stop"
    /\ \E status \in DockerStopStatuses(container_running) :
         stops' = Append(stops, StopCall(status))
    /\ container_running' = FALSE
    /\ stop_calls' = [stop_calls EXCEPT ![d] = @ + 1]
    /\ d_pc' = [d_pc EXCEPT ![d] = "cleanup"]
    /\ UNCHANGED <<sock_file, tmp_file, spawned, d_exit, listening, backlog,
                   pending_clients, clients, container_started, watching,
                   start_calls, c_pc, conn, handshake_failed, written, srv_open, cli_open,
                   syncVars, gitVars, sdVars, sb2, wire, store, att, naming>>

\* daemon.rs:562-564: cleanup_socket, then the process returns Ok
DaemonCleanup(d) ==
    /\ d_pc[d] = "cleanup"
    /\ sock_file' = NoFile
    /\ ProcessExit(d, "ok_drained")
    /\ UNCHANGED <<tmp_file, spawned, container_started, start_calls,
                   stop_calls, stops, container_running, c_pc, conn, handshake_failed, written,
                   cli_open, gitVars, sdVars, sb2, wire, store, att, naming>>

\* ------------------------------------------------------ client processes
clientFrame == <<tmp_file, d_exit, listening, pending_clients, clients,
                 container_started, watching, start_calls, stop_calls, stops,
                 container_running, syncVars, gitVars, sdVars, sb2, wire, store, att, naming>>

\* UnixStream::connect succeeded: a fresh stream, queued on d's listener
Connected(c, d, next) ==
    /\ conn' = [conn EXCEPT ![c] = d]
    /\ UNCHANGED handshake_failed
    /\ written' = [written EXCEPT ![c] = <<>>]
    /\ srv_open' = [srv_open EXCEPT ![c] = TRUE]
    /\ cli_open' = [cli_open EXCEPT ![c] = TRUE]
    /\ backlog' = [backlog EXCEPT ![d] = Append(@, c)]
    /\ c_pc' = [c_pc EXCEPT ![c] = next]

\* connect_or_launch, daemon.rs:134: sock_path.exists()
ClientCheckExists(c) ==
    /\ c_pc[c] = "init"
    /\ c_pc' = [c_pc EXCEPT ![c] = IF sock_file # NoFile THEN "connect1" ELSE "spawn"]
    /\ UNCHANGED <<sock_file, spawned, d_pc, backlog, conn, handshake_failed, written, srv_open,
                   cli_open, clientFrame>>

\* connect_or_launch, daemon.rs:135-153: connect to the existing socket
ClientConnectExisting(c) ==
    /\ c_pc[c] = "connect1"
    /\ IF Connectable(sock_file)
       THEN Connected(c, sock_file, "ready1")
       ELSE /\ c_pc' = [c_pc EXCEPT ![c] = "wait_removal"]
            /\ UNCHANGED <<backlog, conn, handshake_failed, written, srv_open, cli_open>>
    /\ UNCHANGED <<sock_file, spawned, d_pc, clientFrame>>

\* wait_for_ready, daemon.rs:109-121: a blocking read of one byte; Ok when a
\* byte arrives, Err on EOF.  Ok(conn) is returned to the caller (139-140),
\* on Err the stream is dropped and the client waits for the socket to go
ClientWaitReadyExisting(c) ==
    /\ c_pc[c] = "ready1"
    /\ written[c] # <<>> \/ ~srv_open[c]
    /\ IF written[c] # <<>>
       THEN /\ c_pc' = [c_pc EXCEPT ![c] = "acked"]
            /\ UNCHANGED <<conn, handshake_failed, cli_open>>
       ELSE /\ c_pc' = [c_pc EXCEPT ![c] = "wait_removal"]
            /\ handshake_failed' = [handshake_failed EXCEPT ![c] = conn[c]]
            /\ conn' = [conn EXCEPT ![c] = 0]
            /\ cli_open' = [cli_open EXCEPT ![c] = FALSE]
    /\ UNCHANGED <<sock_file, spawned, d_pc, backlog, written, srv_open,
                   clientFrame>>

\* wait_for_socket_removal, daemon.rs:207-257: returns once a check finds
\* the path gone; bails when 30 s pass while it still exists
ClientWaitSocketRemoval(c) ==
    /\ c_pc[c] = "wait_removal"
    /\ c_pc' = [c_pc EXCEPT ![c] = IF sock_file = NoFile THEN "spawn" ELSE "err_timeout"]
    /\ UNCHANGED <<sock_file, spawned, d_pc, backlog, conn, handshake_failed, written, srv_open,
                   cli_open, clientFrame>>

\* spawn_daemon, daemon.rs:170-205: a new daemon process, detached
ClientSpawnDaemon(c) ==
    /\ c_pc[c] = "spawn"
    /\ spawned < Cardinality(Daemons)
    /\ spawned' = spawned + 1
    /\ d_pc' = [d_pc EXCEPT ![spawned + 1] = "rm_stale"]
    /\ c_pc' = [c_pc EXCEPT ![c] = "wait_socket"]
    /\ UNCHANGED <<sock_file, backlog, conn, handshake_failed, written, srv_open, cli_open,
                   clientFrame>>

\* wait_for_socket, daemon.rs:259-316: returns once a check finds a file at
\* the path; bails when 30 s pass without one
ClientWaitSocketNoTimeout(c) ==
    /\ c_pc[c] = "wait_socket"
    /\ sock_file # NoFile
    /\ c_pc' = [c_pc EXCEPT ![c] = "connect2"]
    /\ UNCHANGED <<sock_file, spawned, d_pc, backlog, conn, handshake_failed, written, srv_open,
                   cli_open, clientFrame>>
ClientWaitSocket(c) ==
    /\ c_pc[c] = "wait_socket"
    /\ c_pc' = [c_pc EXCEPT ![c] = IF sock_file # NoFile THEN "connect2" ELSE "err_timeout"]
    /\ UNCHANGED <<sock_file, spawned, d_pc, backlog, conn, handshake_failed, written, srv_open,
                   cli_open, clientFrame>>

\* connect_or_launch, daemon.rs:162-164: connect after launch, `?` on failure
ClientConnectLaunched(c) ==
    /\ c_pc[c] = "connect2"
    /\ IF Connectable(sock_file)
       THEN Connected(c, sock_file, "ready2")
       ELSE /\ c_pc' = [c_pc EXCEPT ![c] = "err_connect"]
            /\ UNCHANGED <<backlog, conn, handshake_failed, written, srv_open, cli_open>>
    /\ UNCHANGED <<sock_file, spawned, d_pc, clientFrame>>

\* connect_or_launch, daemon.rs:165: conn.wait_for_ready()?
ClientWaitReadyLaunched(c) ==
    /\ c_pc[c] = "ready2"
    /\ written[c] # <<>> \/ ~srv_open[c]
    /\ IF written[c] # <<>>
       THEN /\ c_pc' = [c_pc EXCEPT ![c] = "acked"]
            /\ UNCHANGED <<conn, handshake_failed, cli_open>>
       ELSE /\ c_pc' = [c_pc EXCEPT ![c] = "err_ready"]
            /\ conn' = [conn EXCEPT ![c] = 0]
            /\ UNCHANGED handshake_failed
            /\ cli_open' = [cli_open EXCEPT ![c] = FALSE]
    /\ UNCHANGED <<sock_file, spawned, d_pc, backlog, written, srv_open,
                   clientFrame>>

\* the caller of connect_or_launch is done with the sandbox and drops the
\* DaemonConnection (or its process exits): the stream is closed
ClientDisconnect(c) ==
    /\ c_pc[c] = "acked"
    /\ c_pc' = [c_pc EXCEPT ![c] = "closed"]
    /\ cli_open' = [cli_open EXCEPT ![c] = FALSE]
    /\ UNCHANGED <<sock_file, spawned, d_pc, backlog, conn, handshake_failed, written, srv_open,
                   clientFrame>>

\* the client process is killed while it is blocked in wait_for_ready
ClientKilled(c) ==
    /\ c_pc[c] \in {"ready1", "ready2"}
    /\ c_pc' = [c_pc EXCEPT ![c] = "killed"]
    /\ cli_open' = [cli_open EXCEPT ![c] = FALSE]
    /\ UNCHANGED <<sock_file, spawned, d_pc, backlog, conn, handshake_failed, written, srv_open,
                   clientFrame>>

ClientReturned(c) == c_pc[c] \in {"acked", "closed", "err_timeout", "err_connect", "err_ready"}

\* ------------------------------------------------- daemon_protocol.rs
\* characters of a Rust String: a letter, line feed, double quote, backslash
Chars == {"n", "LF", "QUOTE", "BSLASH"}
\* a byte sequence that is not UTF-8; it can occur in a PathBuf only
BadByte == "xFF"
Strings == UNION {[1..k -> Chars] : k \in 0..MaxStrLen}
Paths == UNION {[1..k -> Chars \cup {BadByte}] : k \in 0..MaxStrLen}
\* config::Runtime, daemon_protocol.rs:52-78
Runtimes == {"Runsc", "Runc", "SysboxRunc"}
\* SandboxParams, daemon_protocol.rs:11-19.  image_tag, user_info.username,
\* user_info.shell and env_vars are Strings serialized like sandbox_name,
\* uid and gid are numbers, overlay_mode is an enum like runtime
SandboxParamsSet == [project_dir : Paths, runtime : Runtimes]

\* #[serde(rename_all = "snake_case")] on RuntimeWire
RuntimeWire(r) ==
    CASE r = "Runsc" -> "runsc"
      [] r = "Runc" -> "runc"
      [] r = "SysboxRunc" -> "sysbox_runc"
RuntimeOfWire(w) ==
    CASE w = "runsc" -> "Runsc"
      [] w = "runc" -> "Runc"
      [] w = "sysbox_runc" -> "SysboxRunc"
RuntimeWireNames == {RuntimeWire(r) : r \in Runtimes}

\* serde_json writes a string between quotes and escapes quote, backslash
\* and the control characters
EscapeCharRawLineFeed(c) ==
    CASE c = "QUOTE" -> <<"BSLASH", "QUOTE">>
      [] c = "BSLASH" -> <<"BSLASH", "BSLASH">>
      [] OTHER -> <<c>>
EscapeChar(c) ==
    CASE c = "LF" -> <<"BSLASH", "n">>
      [] c = "QUOTE" -> <<"BSLASH", "QUOTE">>
      [] c = "BSLASH" -> <<"BSLASH", "BSLASH">>
      [] OTHER -> <<c>>

RECURSIVE Escaped(_)
Escaped(str) == IF str = <<>> THEN <<>> ELSE EscapeChar(Head(str)) \o Escaped(Tail(str))
JsonString(str) == <<"QUOTE">> \o Escaped(str) \o <<"QUOTE">>

\* serde serializes a Path through to_str(): Err when it is not UTF-8
IsUtf8(p) == \A i \in DOMAIN p : p[i] # BadByte

\* serde_json::to_string(request), daemon_protocol.rs:131-137 and 151; the
\* keys and punctuation between the strings are written as one symbol each
RequestJson(name, params) ==
    <<"{method:ensure_sandbox,params:{sandbox_name:">> \o JsonString(name)
    \o <<",params:{project_dir:">> \o JsonString(params.project_dir)
    \o <<",runtime:", RuntimeWire(params.runtime), "}}}">>

\* Response, daemon_protocol.rs:200-240 and 286-302
ErrorMessages == {m \in Strings : Len(m) <= 1}
Responses == {[kind |-> "ok", message |-> <<>>]}
             \cup {[kind |-> "error", message |-> m] : m \in ErrorMessages}
ResponseJson(resp) ==
    IF resp.kind = "ok" THEN <<"{result:{}}">>
    ELSE <<"{error:{code:1,message:">> \o JsonString(resp.message) \o <<"}}">>

\* serde_json reads a string: up to the closing quote, undoing the escapes;
\* a raw control character inside a string is an error
ParseFailed == [ok |-> FALSE, value |-> <<>>, next |-> 0]
RECURSIVE ParseChars(_, _, _)
ParseChars(b, i, acc) ==
    IF i > Len(b) THEN ParseFailed
    ELSE IF b[i] = "QUOTE" THEN [ok |-> TRUE, value |-> acc, next |-> i + 1]
    ELSE IF b[i] = "BSLASH"
         THEN IF i + 1 > Len(b) THEN ParseFailed
              ELSE IF b[i + 1] = "n" THEN ParseChars(b, i + 2, Append(acc, "LF"))
              ELSE IF b[i + 1] \in {"QUOTE", "BSLASH"}
                   THEN ParseChars(b, i + 2, Append(acc, b[i + 1]))
              ELSE ParseFailed
    ELSE IF b[i] \in Chars \ {"LF"} THEN ParseChars(b, i + 1, Append(acc, b[i]))
    ELSE ParseFailed
ParseString(b, i) ==
    IF i <= Len(b) /\ b[i] = "QUOTE" THEN ParseChars(b, i + 1, <<>>) ELSE ParseFailed

\* white space after the value is accepted by serde_json::from_str
OnlyWhitespace(b, i) == \A j \in i..Len(b) : b[j] = "LF"

\* serde_json::from_str::<Request>(&line) and the match on it,
\* daemon_protocol.rs:268-282
RequestError == [ok |-> FALSE, sandbox_name |-> <<>>,
                 params |-> [project_dir |-> <<>>, runtime |-> "Runsc"]]
ParseRequest(b) ==
    LET name == ParseString(b, 2)
        dir == ParseString(b, name.next + 1)
        ok == /\ Len(b) >= 1
              /\ b[1] = "{method:ensure_sandbox,params:{sandbox_name:"
              /\ name.ok
              /\ name.next <= Len(b) /\ b[name.next] = ",params:{project_dir:"
              /\ dir.ok
              /\ dir.next + 2 <= Len(b)
              /\ b[dir.next] = ",runtime:"
              /\ b[dir.next + 1] \in RuntimeWireNames
              /\ b[dir.next + 2] = "}}}"
              /\ OnlyWhitespace(b, dir.next + 3)
    IN  IF ok
        THEN [ok |-> TRUE, sandbox_name |-> name.value,
              params |-> [project_dir |-> dir.value,
                          runtime |-> RuntimeOfWire(b[dir.next + 1])]]
        ELSE RequestError

\* serde_json::from_str::<Response>(&line), daemon_protocol.rs:170
ParseResponse(b) ==
    LET msg == ParseString(b, 2) IN
    IF Len(b) >= 1 /\ b[1] = "{result:{}}" /\ OnlyWhitespace(b, 2)
    THEN [ok |-> TRUE, kind |-> "ok", message |-> <<>>]
    ELSE IF /\ Len(b) >= 1 /\ b[1] = "{error:{code:1,message:"
            /\ msg.ok
            /\ msg.next <= Len(b) /\ b[msg.next] = "}}"
            /\ OnlyWhitespace(b, msg.next + 1)
    THEN [ok |-> TRUE, kind |-> "error", message |-> msg.value]
    ELSE [ok |-> FALSE, kind |-> "none", message |-> <<>>]

\* BufRead::read_line: the bytes up to and including the first line feed,
\* or all of them when the stream ends without one
RECURSIVE LineEnd(_, _)
LineEnd(b, i) ==
    IF i > Len(b) THEN Len(b) ELSE IF b[i] = "LF" THEN i ELSE LineEnd(b, i + 1)
read_line(b) == SubSeq(b, 1, LineEnd(b, 1))
AfterLine(b) == SubSeq(b, LineEnd(b, 1) + 1, Len(b))

NoResponse == [ok |-> FALSE, kind |-> "none", message |-> <<>>]
WireOff ==
    [pc |-> "off", sandbox_name |-> <<>>,
     params |-> [project_dir |-> <<>>, runtime |-> "Runsc"],
     c2s |-> <<>>, s2c |-> <<>>, sent |-> <<>>, replied |-> <<>>,
     srv_line |-> <<>>, srv_lost |-> <<>>, request |-> RequestError,
     cli_line |-> <<>>, cli_lost |-> <<>>, response |-> NoResponse,
     result |-> "none"]

wireFrame == <<lifeVars, syncVars, gitVars, sdVars, sb2, store, att, naming>>

\* Client::ensure_sandbox, daemon_protocol.rs:131-139: build the request
\* and send_request (150-157); the `?` returns the serialization error
\* before anything is written
WireSendRequest ==
    /\ wire.pc = "send"
    /\ IF IsUtf8(wire.params.project_dir)
       THEN LET json == RequestJson(wire.sandbox_name, wire.params) \o <<"LF">> IN
            wire' = [wire EXCEPT !.c2s = @ \o json, !.sent = json, !.pc = "read"]
       ELSE wire' = [wire EXCEPT !.result = "err_serialize", !.pc = "done"]
    /\ UNCHANGED wireFrame

\* server::read_request, daemon_protocol.rs:257-283: the BufReader takes
\* what the stream holds, read_line takes the first line of it, and what is
\* left in the buffer is dropped with the BufReader
WireReadRequest ==
    /\ wire.pc = "read"
    /\ wire' = [wire EXCEPT !.c2s = <<>>,
                            !.srv_line = read_line(wire.c2s),
                            !.srv_lost = AfterLine(wire.c2s),
                            !.request = IF read_line(wire.c2s) = <<>>
                                        THEN RequestError
                                        ELSE ParseRequest(read_line(wire.c2s)),
                            !.pc = "respond"]
    /\ UNCHANGED wireFrame

\* server::send_ensure_sandbox_ok or server::send_error,
\* daemon_protocol.rs:286-302; a request that did not parse gets an error
WireSendResponse ==
    /\ wire.pc = "respond"
    /\ \E resp \in Responses :
         /\ resp.kind = "ok" => wire.request.ok
         /\ LET json == ResponseJson(resp) \o <<"LF">> IN
            wire' = [wire EXCEPT !.s2c = @ \o json, !.replied = json, !.pc = "recv"]
    /\ UNCHANGED wireFrame

\* Client::ensure_sandbox, daemon_protocol.rs:140-146: read_response
\* (159-171) and the check of response.error
WireReadResponse ==
    /\ wire.pc = "recv"
    /\ LET line == read_line(wire.s2c)
           resp == IF line = <<>> THEN NoResponse ELSE ParseResponse(line)
       IN  wire' = [wire EXCEPT !.s2c = <<>>,
                                !.cli_line = line,
                                !.cli_lost = AfterLine(wire.s2c),
                                !.response = resp,
                                !.result = IF ~resp.ok THEN "err_parse"
                                           ELSE IF resp.kind = "error" THEN "err_daemon"
                                           ELSE "ok",
                                !.pc = "done"]
    /\ UNCHANGED wireFrame

\* -------------------------------------- sandbox.rs: delete_sandbox
Boxes == 1..NumSandboxes
\* what a sandbox owns: <base>/<name> and the sandbox.json in it, the
\* container, the overlay volumes, refs/heads/<name> in meta.git and
\* refs/remotes/sandbox/<name> in the host repository
NoBox == [dir |-> FALSE, json |-> FALSE, container |-> FALSE, volumes |-> FALSE,
          hub_branch |-> FALSE, tracking_ref |-> FALSE]
\* nothing exists: no sandbox, no meta.git, no remote `sandbox` in the host
NoStore == [box |-> [n \in Boxes |-> NoBox], meta_git |-> FALSE, remote |-> FALSE,
            last |-> [op |-> "none", n |-> 0]]

storeFrame == <<lifeVars, syncVars, gitVars, sdVars, sb2, wire, att, naming>>

\* ensure_sandbox (sandbox.rs:797-828) as far as existence goes: the
\* directory (801), meta.git (804), the host's remote (807); when a later
\* step fails (810-822) the call returns before sandbox.json is saved (825)
StoreEnsure(n) ==
    /\ \E ok \in BOOLEAN :
         store' = [store EXCEPT !.box[n].dir = TRUE,
                                !.box[n].json = @ \/ ok,
                                !.meta_git = TRUE,
                                !.remote = TRUE,
                                !.last = [op |-> "ensure", n |-> n]]
    /\ UNCHANGED storeFrame

\* ensure_container_running (sandbox.rs:709-794): the container and, in
\* overlayfs mode, its volumes
StoreStartContainer(n) ==
    /\ store.box[n].json
    /\ \E overlayfs \in BOOLEAN :
         store' = [store EXCEPT !.box[n].container = TRUE,
                                !.box[n].volumes = @ \/ overlayfs,
                                !.last = [op |-> "start", n |-> n]]
    /\ UNCHANGED storeFrame

\* a sync pass (git.rs:246-283): the sandbox branch in meta.git and the
\* host's tracking ref
StoreSync(n) ==
    /\ store.box[n].json /\ store.meta_git
    /\ store' = [store EXCEPT !.box[n].hub_branch = TRUE,
                              !.box[n].tracking_ref = TRUE,
                              !.last = [op |-> "sync", n |-> n]]
    /\ UNCHANGED storeFrame

\* list_sandboxes (sandbox.rs:471-491): the directories under the base
\* directory whose sandbox.json loads
list_sandboxes_any_directory(box) == {m \in Boxes : box[m].dir}
list_sandboxes(box) == {m \in Boxes : box[m].dir /\ box[m].json}

\* delete_sandbox (sandbox.rs:542-603) for a sandbox that cli.rs:321-326
\* found in list_sandboxes: container, volumes, hub branch, tracking ref and
\* directory are removed; when list_sandboxes is then empty, meta.git (and
\* every branch in it) and the host's remote are removed too
DeleteSandbox(n) ==
    /\ n \in list_sandboxes(store.box)
    /\ LET removed == [store.box EXCEPT ![n] = NoBox]
           last == list_sandboxes(removed) = {}
       IN  store' = [box |-> IF last
                             THEN [m \in Boxes |-> [removed[m] EXCEPT !.hub_branch = FALSE]]
                             ELSE removed,
                     meta_git |-> store.meta_git /\ ~last,
                     remote |-> store.remote /\ ~last,
                     last |-> [op |-> "delete", n |-> n]]
    /\ UNCHANGED storeFrame

\* ------------------------------------------ sandbox.rs: run_sandbox
Procs == 1..NumProcs
\* no process has called run_sandbox, pids_dir is empty, the container is
\* not running
NoAttachment == [pc |-> [p \in Procs |-> "idle"], pid_files |-> {},
                 container |-> FALSE]

attFrame == <<lifeVars, syncVars, gitVars, sdVars, sb2, wire, store, naming>>

\* sandbox.rs:667: ensure_container_running starts the container unless it
\* runs already
AttEnsureContainerRunning(p) ==
    /\ att.pc[p] = "idle"
    /\ att' = [att EXCEPT !.pc[p] = "write_pid", !.container = TRUE]
    /\ UNCHANGED attFrame

\* sandbox.rs:675: info.write_pid_file()
AttWritePidFile(p) ==
    /\ att.pc[p] = "write_pid"
    /\ att' = [att EXCEPT !.pc[p] = "exec", !.pid_files = @ \cup {p}]
    /\ UNCHANGED attFrame

\* sandbox.rs:693: docker::exec_in_container returns, with the command's
\* status or with docker's error when the container is gone
AttExecReturns(p) ==
    /\ att.pc[p] = "exec"
    /\ att' = [att EXCEPT !.pc[p] = "remove_pid"]
    /\ UNCHANGED attFrame

\* sandbox.rs:696: info.remove_pid_file()
AttRemovePidFile(p) ==
    /\ att.pc[p] = "remove_pid"
    /\ att' = [att EXCEPT !.pc[p] = "check", !.pid_files = @ \ {p}]
    /\ UNCHANGED attFrame

\* process_is_alive(pid): the process has not returned from run_sandbox
process_is_alive(p) == att.pc[p] \notin {"idle", "done"}

\* has_other_live_processes (sandbox.rs:411-441): a PID file of another
\* live process exists; the files of dead processes are removed
has_other_live_processes(p) ==
    \E q \in att.pid_files \ {p} : process_is_alive(q)

\* sandbox.rs:699: the check of has_other_live_processes
AttCheckOthers(p) ==
    /\ att.pc[p] = "check"
    /\ att' = [att EXCEPT
                 !.pc[p] = IF has_other_live_processes(p) THEN "done" ELSE "stop",
                 !.pid_files = {q \in @ : q = p \/ process_is_alive(q)}]
    /\ UNCHANGED attFrame

\* sandbox.rs:700-701: docker::stop_container, then run_sandbox returns
AttStopContainer(p) ==
    /\ att.pc[p] = "stop"
    /\ att' = [att EXCEPT !.pc[p] = "done", !.container = FALSE]
    /\ UNCHANGED attFrame

\* ------------------------------- sandbox.rs / git.rs: names and refs
\* strings are sequences of pieces; "-" is the piece format! puts between
\* the parts of a name
\* absolute paths of repositories: the parent directory and the last
\* component
RepoRoots == [parent : {"home", "srv"}, file_name : {<<"proj">>, <<"proj", "-", "x">>}]
SandboxNames == {<<"main">>, <<"y">>, <<"x", "-", "y">>}
\* what `git symbolic-ref --short HEAD` prints in the host repository;
\* nothing when HEAD is detached
HeadBranches == {<<>>, <<"main">>, <<"y">>}

\* SandboxInfo::new (sandbox.rs:329-333) and volume_prefix (380-386):
\* format!("sandbox-{}-{}", repo_root.file_name(), name)
container_name(repo_root, name) ==
    <<"sandbox", "-">> \o repo_root.file_name \o <<"-">> \o name
volume_prefix(repo_root, name) ==
    <<"sandbox", "-">> \o repo_root.file_name \o <<"-">> \o name
\* get_sandbox_instance_dir (config.rs:92-107): the base directory carries
\* a hash of the whole path of the repository
sandbox_dir(repo_root, name) == <<repo_root, name>>

\* get_primary_branch (git.rs:193-220)
get_primary_branch(head, has_main) ==
    IF head # <<>> THEN head
    ELSE IF has_main THEN <<"main">> ELSE <<"master">>
\* the destination of the fetch in sync_main_to_meta (git.rs:224-243)
sync_main_to_meta_dst(head, has_main) ==
    <<"refs/heads/">> \o get_primary_branch(head, has_main)
\* the destination of the fetch in sync_sandbox_to_meta (git.rs:246-262);
\* ensure_sandbox names the branch after the sandbox (sandbox.rs:817-819)
sync_sandbox_to_meta_dst(branch) == <<"refs/heads/">> \o branch

NoInfo == [container_name |-> <<>>, volume_prefix |-> <<>>, sandbox_dir |-> <<>>]
NoNaming == [repo_root |-> <<[parent |-> "home", file_name |-> <<"proj">>],
                             [parent |-> "home", file_name |-> <<"proj">>]>>,
             name |-> <<<<"y">>, <<"y">>>>,
             head |-> <<>>, has_main |-> TRUE,
             info |-> <<NoInfo, NoInfo>>,
             main_dst |-> <<>>, sandbox_dst |-> <<<<>>, <<>>>>]

namingFrame == <<lifeVars, syncVars, gitVars, sdVars, sb2, wire, store, att>>

\* SandboxInfo::new(name, repo_root) for the i-th sandbox
SandboxInfoNew(i) ==
    /\ naming.info[i] = NoInfo
    /\ naming' = [naming EXCEPT !.info[i] =
                    [container_name |-> container_name(naming.repo_root[i], naming.name[i]),
                     volume_prefix |-> volume_prefix(naming.repo_root[i], naming.name[i]),
                     sandbox_dir |-> sandbox_dir(naming.repo_root[i], naming.name[i])]]
    /\ UNCHANGED namingFrame

\* sync_main_to_meta runs its fetch
NamingSyncMainToMeta ==
    /\ naming.main_dst = <<>>
    /\ naming' = [naming EXCEPT !.main_dst =
                    sync_main_to_meta_dst(naming.head, naming.has_main)]
    /\ UNCHANGED namingFrame

\* sync_sandbox_to_meta runs its fetch for the i-th sandbox
NamingSyncSandboxToMeta(i) ==
    /\ naming.sandbox_dst[i] = <<>>
    /\ naming' = [naming EXCEPT !.sandbox_dst[i] =
                    sync_sandbox_to_meta_dst(naming.name[i])]
    /\ UNCHANGED namingFrame

\* ---------------------------------------------------------------- Init
GitInit ==
    /\ parent = [k \in Commits |-> NoRef]
    /\ n_commits = 1
    \* ensure_sandbox (sandbox.rs:797-828): meta.git is a bare clone of the
    \* host, the sandbox clone is on a new branch <name> at the primary tip
    /\ host_main = 1
    /\ meta_main = 1
    /\ clone_ref = 1
    /\ meta_ref = NoRef
    /\ host_remote_ref = NoRef
    /\ sb2 = NoSandbox

SdClockInit ==
    /\ clock = 0
    /\ sd_now = 0
    /\ sd_last_sync = 0
    /\ sd_pending_since = 0

SdOff ==
    /\ sd_pc = "off"
    /\ sd_rx = <<>>
    /\ sd_pending_sync = FALSE
    /\ SdClockInit

\* No daemon runs; the socket path is absent or was left behind by a daemon
\* that died without cleanup_socket
Init ==
    /\ sock_file \in {NoFile, StaleIno}
    /\ tmp_file = NoFile
    /\ spawned = 0
    /\ d_pc = [d \in Daemons |-> "unspawned"]
    /\ d_exit = [d \in Daemons |-> "none"]
    /\ listening = [d \in Daemons |-> FALSE]
    /\ backlog = [d \in Daemons |-> <<>>]
    /\ pending_clients = [d \in Daemons |-> <<>>]
    /\ clients = [d \in Daemons |-> <<>>]
    /\ container_started = [d \in Daemons |-> FALSE]
    /\ watching = [d \in Daemons |-> FALSE]
    /\ rx = [d \in Daemons |-> <<>>]
    /\ unsynced = [d \in Daemons |-> "none"]
    /\ pending_sync = [d \in Daemons |-> FALSE]
    /\ start_calls = [d \in Daemons |-> 0]
    /\ stop_calls = [d \in Daemons |-> 0]
    /\ stops = <<>>
    /\ container_running = FALSE
    /\ c_pc = [c \in Clients |-> "init"]
    /\ conn = [c \in Clients |-> 0]
    /\ handshake_failed = [c \in Clients |-> 0]
    /\ written = [c \in Clients |-> <<>>]
    /\ srv_open = [c \in Clients |-> FALSE]
    /\ cli_open = [c \in Clients |-> FALSE]
    /\ GitInit
    /\ wire = WireOff
    /\ store = NoStore
    /\ att = NoAttachment
    /\ naming = NoNaming
    /\ SdOff

\* ------------------------------------------- work on the repositories
\* the watchers that observe <clone>/.git: the daemon's (daemon.rs:437-445)
\* and the standalone sync loop's (sync.rs:52-57)
SdRunPcs == {"recv", "s2m", "m2h", "main", "check"}
Notified(ch, kind) == [d \in Daemons |-> IF watching[d] THEN Append(ch[d], kind) ELSE ch[d]]
SdNotified(ch, kind) == IF sd_pc \in SdRunPcs THEN Append(ch, kind) ELSE ch
\* the final sync of d has started: its first fetch has been run
FinalSyncStarted(d) == d_pc[d] \in {"final_m2h", "stop", "cleanup"}
EventNoted(u, kind) ==
    [d \in Daemons |->
        IF ~(watching[d] /\ SetsPending(kind)) \/ u[d] = "before_final" THEN u[d]
        ELSE IF FinalSyncStarted(d) THEN "after_final" ELSE "before_final"]
ChannelsHaveRoom ==
    /\ \A d \in Daemons : Len(rx[d]) < MaxEvents
    /\ Len(sd_rx) < MaxEvents

repoFrame == <<sock_file, tmp_file, spawned, d_pc, d_exit, listening, backlog,
               pending_clients, clients, container_started, watching,
               start_calls, stop_calls, stops, container_running, c_pc, conn, handshake_failed,
               written, srv_open, cli_open, pending_sync, sd_pc,
               sd_pending_sync, clock, sd_now, sd_last_sync,
               sd_pending_since, sb2, wire, store, att, naming>>

\* `git commit` on the sandbox branch, inside the running container
SandboxCommit ==
    /\ container_running
    /\ n_commits < MaxCommits
    /\ ChannelsHaveRoom
    /\ n_commits' = n_commits + 1
    /\ parent' = [parent EXCEPT ![n_commits + 1] = clone_ref]
    /\ clone_ref' = n_commits + 1
    /\ rx' = Notified(rx, "modify")
    /\ unsynced' = EventNoted(unsynced, "modify")
    /\ sd_rx' = SdNotified(sd_rx, "modify")
    /\ UNCHANGED <<repoFrame, meta_ref, host_remote_ref, host_main, meta_main>>

\* `git commit --amend` on the sandbox branch: the new tip replaces the old
\* one and has the old tip's parent
SandboxAmend ==
    /\ container_running
    /\ n_commits < MaxCommits
    /\ ChannelsHaveRoom
    /\ n_commits' = n_commits + 1
    /\ parent' = [parent EXCEPT ![n_commits + 1] = parent[clone_ref]]
    /\ clone_ref' = n_commits + 1
    /\ rx' = Notified(rx, "modify")
    /\ unsynced' = EventNoted(unsynced, "modify")
    /\ sd_rx' = SdNotified(sd_rx, "modify")
    /\ UNCHANGED <<repoFrame, meta_ref, host_remote_ref, host_main, meta_main>>

\* a process in the container only reads under <clone>/.git
SandboxAccess ==
    /\ container_running
    /\ ChannelsHaveRoom
    /\ rx' = Notified(rx, "access")
    /\ unsynced' = EventNoted(unsynced, "access")
    /\ sd_rx' = SdNotified(sd_rx, "access")
    /\ UNCHANGED <<repoFrame, gitVars>>

\* `git commit` on the host's primary branch
HostCommit ==
    /\ n_commits < MaxCommits
    /\ n_commits' = n_commits + 1
    /\ parent' = [parent EXCEPT ![n_commits + 1] = host_main]
    /\ host_main' = n_commits + 1
    /\ UNCHANGED <<repoFrame, rx, unsynced, sd_rx, clone_ref, meta_ref, host_remote_ref, meta_main>>

\* `git commit --amend` on the host's primary branch
HostAmend ==
    /\ n_commits < MaxCommits
    /\ n_commits' = n_commits + 1
    /\ parent' = [parent EXCEPT ![n_commits + 1] = parent[host_main]]
    /\ host_main' = n_commits + 1
    /\ UNCHANGED <<repoFrame, rx, unsynced, sd_rx, clone_ref, meta_ref, host_remote_ref, meta_main>>

\* setup_sandbox_remotes, git.rs:298-310: `git remote rename origin
\* sandbox` exits with an error when the clone has no remote origin
setup_sandbox_remotes_ok(remote) == remote = "origin"
\* SandboxInfo::new, sandbox.rs:334: created_at is the time of the call
new_created_at == clock

\* ensure_sandbox for a second sandbox name (sandbox.rs:797-828), the first
\* time and again: meta.git exists; sync_main_to_meta(..)? (810); the clone
\* of meta.git, whose sandbox/<primary> is the hub's primary branch, unless
\* the clone directory exists (git.rs:23-26); setup_sandbox_remotes(..)?
\* (822); info.save()? of the SandboxInfo made at 798 (825)
EnsureSandboxCall ==
    /\ meta_main' = sync_main_to_meta
    /\ LET cloned == IF sb2.st = "created" THEN sb2
                     ELSE [sb2 EXCEPT !.st = "created", !.main = sync_main_to_meta,
                                      !.remote = "origin"]
       IN  sb2' = IF ~sync_main_to_meta_ok
                  THEN [sb2 EXCEPT !.st = IF @ = "absent" THEN "failed" ELSE @,
                                   !.result = "err_sync_main"]
                  ELSE IF ~setup_sandbox_remotes_ok(cloned.remote)
                  THEN [cloned EXCEPT !.result = "err_remote"]
                  ELSE [cloned EXCEPT !.remote = "sandbox",
                                      !.created_at = new_created_at,
                                      !.result = "ok"]
    /\ UNCHANGED <<lifeVars, syncVars, sdVars, wire, store, att, naming, parent, n_commits,
                   clone_ref, meta_ref, host_remote_ref, host_main>>

\* the first ensure_sandbox for the name
EnsureSecondSandbox == sb2.st = "absent" /\ EnsureSandboxCall
\* ensure_sandbox for a name whose sandbox directory exists
EnsureSandboxAgain == sb2.st # "absent" /\ EnsureSandboxCall

\* ------------------------------------------- sync.rs: run_sync_daemon
sdFrame == <<lifeVars, syncVars, sb2, wire, store, att, naming, parent, n_commits, clone_ref, host_main>>

\* sync.rs:68 and daemon.rs:374, in milliseconds
debounce == 500
\* sync.rs:78: the timeout of one recv_timeout, in milliseconds
PollMs == 100

\* the wall clock advances
ClockTick ==
    /\ clock < MaxTicks * PollMs
    /\ clock' = clock + PollMs
    /\ UNCHANGED <<sdFrame, sd_pc, sd_rx, sd_pending_sync, sd_now,
                   sd_last_sync, sd_pending_since, meta_ref, host_remote_ref,
                   meta_main>>

\* sync.rs:101: now.duration_since(last_sync) > debounce
DebouncedAtInterval(now) == now - sd_last_sync >= debounce
Debounced(now) == now - sd_last_sync > debounce

\* sync.rs:78-101: recv_timeout on the watcher channel; an access event
\* `continue`s the loop, any other event sets pending_sync; then `now` is
\* read and compared with last_sync.  The intervals of the main sync (30 s)
\* and of the container check (5 s) lie beyond the horizon of the clock
SdRecv ==
    /\ sd_pc = "recv"
    /\ IF sd_rx # <<>> /\ ~SetsPending(Head(sd_rx))
       THEN /\ sd_rx' = Tail(sd_rx)
            /\ UNCHANGED <<sd_pc, sd_pending_sync, sd_now, sd_pending_since>>
       ELSE LET pend == sd_pending_sync \/ sd_rx # <<>> IN
            /\ sd_rx' = IF sd_rx = <<>> THEN sd_rx ELSE Tail(sd_rx)
            /\ sd_pending_sync' = pend
            /\ sd_pending_since' = IF pend /\ ~sd_pending_sync THEN clock
                                   ELSE sd_pending_since
            /\ sd_now' = clock
            /\ \E main_due \in BOOLEAN :
                 sd_pc' = IF pend /\ Debounced(clock) THEN "s2m"
                          ELSE IF main_due THEN "main" ELSE "check"
    /\ UNCHANGED <<sdFrame, clock, sd_last_sync, meta_ref, host_remote_ref,
                   meta_main>>

\* sync.rs:102-109 (and 121-122 when the fetch fails)
SdSyncSandboxToMeta ==
    /\ sd_pc = "s2m"
    /\ meta_ref' = sync_sandbox_to_meta
    /\ IF sync_sandbox_to_meta_ok
       THEN /\ sd_pc' = "m2h"
            /\ UNCHANGED <<sd_pending_sync, sd_last_sync>>
       ELSE /\ sd_pending_sync' = FALSE
            /\ sd_last_sync' = sd_now
            /\ \E main_due \in BOOLEAN : sd_pc' = IF main_due THEN "main" ELSE "check"
    /\ UNCHANGED <<sdFrame, sd_rx, clock, sd_now, sd_pending_since,
                   host_remote_ref, meta_main>>

\* sync.rs:110-123
SdSyncMetaToHost ==
    /\ sd_pc = "m2h"
    /\ host_remote_ref' = sync_meta_to_host
    /\ sd_pending_sync' = FALSE
    /\ sd_last_sync' = sd_now
    /\ \E main_due \in BOOLEAN : sd_pc' = IF main_due THEN "main" ELSE "check"
    /\ UNCHANGED <<sdFrame, sd_rx, clock, sd_now, sd_pending_since, meta_ref,
                   meta_main>>

\* sync.rs:125-138
SdSyncMain ==
    /\ sd_pc = "main"
    /\ meta_main' = sync_main_to_meta
    /\ sd_pc' = "check"
    /\ UNCHANGED <<sdFrame, sd_rx, sd_pending_sync, clock, sd_now,
                   sd_last_sync, sd_pending_since, meta_ref, host_remote_ref>>

\* sync.rs:140-163: every 5 s docker::container_is_running; Ok(false) breaks
\* the loop and the function returns
SdContainerCheck ==
    /\ sd_pc = "check"
    /\ \E check_due \in BOOLEAN :
         sd_pc' = IF check_due /\ ~container_running THEN "exited" ELSE "recv"
    /\ UNCHANGED <<sdFrame, sd_rx, sd_pending_sync, clock, sd_now,
                   sd_last_sync, sd_pending_since, meta_ref, host_remote_ref,
                   meta_main>>

\* run_sandbox (sandbox.rs:695-702): the last attached process stops the
\* container
AttachedProcessStopsContainer ==
    /\ container_running
    /\ \E status \in DockerStopStatuses(container_running) :
         stops' = Append(stops, StopCall(status))
    /\ container_running' = FALSE
    /\ UNCHANGED <<sock_file, tmp_file, spawned, d_pc, d_exit, listening,
                   backlog, pending_clients, clients, container_started,
                   watching, start_calls, stop_calls, c_pc, conn, handshake_failed, written,
                   srv_open, cli_open, syncVars, gitVars, sdVars, sb2, wire, store, att, naming>>

\* ------------------------------------------------------ specifications
\* the accept loop and teardown without the debounced sync
DaemonLoopStep(d) ==
    \/ DaemonAccept(d)
    \/ DaemonStartContainer(d)
    \/ DaemonStartWatcher(d)
    \/ DaemonSweep(d)
    \/ DaemonSyncEvents(d)
    \/ DaemonSyncMain(d)
    \/ DaemonFinalSandboxToMeta(d)
    \/ DaemonFinalMetaToHost(d)
    \/ DaemonStopContainer(d)
    \/ DaemonCleanup(d)

\* run_daemon_with_sync from bind_socket to its return
DaemonLifeStep(d) ==
    \/ BindRemoveStale(d)
    \/ BindTemp(d)
    \/ BindHardLink(d)
    \/ BindRemoveTemp(d)
    \/ DaemonLoopStep(d)

\* connect_or_launch without the launch, and the end of the session
ClientSessionStep(c) ==
    \/ ClientCheckExists(c)
    \/ ClientConnectExisting(c)
    \/ ClientWaitReadyExisting(c)
    \/ ClientWaitSocketRemoval(c)
    \/ ClientWaitSocket(c)
    \/ ClientConnectLaunched(c)
    \/ ClientWaitReadyLaunched(c)
    \/ ClientDisconnect(c)
    \/ ClientKilled(c)

ClientStep(c) ==
    \/ ClientSessionStep(c)
    \/ ClientSpawnDaemon(c)

\* Spec: clients race to connect_or_launch one sandbox whose branch is not
\* touched meanwhile: the watcher channel stays empty, so the debounced sync
\* of the loop is never due
Next ==
    \/ \E d \in Daemons : DaemonLifeStep(d)
    \/ \E c \in Clients : ClientStep(c)

Spec == Init /\ [][Next]_vars

\* SpecSync: daemon 1 has started the container and serves client 1, while
\* the sandbox branch and the host's primary branch are committed to and
\* rewritten
InitSync ==
    /\ sock_file = 1
    /\ tmp_file = NoFile
    /\ spawned = 1
    /\ d_pc = [d \in Daemons |-> IF d = 1 THEN "accept" ELSE "unspawned"]
    /\ d_exit = [d \in Daemons |-> "none"]
    /\ listening = [d \in Daemons |-> d = 1]
    /\ backlog = [d \in Daemons |-> <<>>]
    /\ pending_clients = [d \in Daemons |-> <<>>]
    /\ clients = [d \in Daemons |-> IF d = 1 THEN <<1>> ELSE <<>>]
    /\ container_started = [d \in Daemons |-> d = 1]
    /\ watching = [d \in Daemons |-> d = 1]
    /\ rx = [d \in Daemons |-> <<>>]
    /\ unsynced = [d \in Daemons |-> "none"]
    /\ pending_sync = [d \in Daemons |-> FALSE]
    /\ start_calls = [d \in Daemons |-> IF d = 1 THEN 1 ELSE 0]
    /\ stop_calls = [d \in Daemons |-> 0]
    /\ stops = <<>>
    /\ container_running = TRUE
    /\ c_pc = [c \in Clients |-> IF c = 1 THEN "acked" ELSE "init"]
    /\ conn = [c \in Clients |-> IF c = 1 THEN 1 ELSE 0]
    /\ handshake_failed = [c \in Clients |-> 0]
    /\ written = [c \in Clients |-> IF c = 1 THEN <<0>> ELSE <<>>]
    /\ srv_open = [c \in Clients |-> c = 1]
    /\ cli_open = [c \in Clients |-> c = 1]
    /\ GitInit
    /\ wire = WireOff
    /\ store = NoStore
    /\ att = NoAttachment
    /\ naming = NoNaming
    /\ SdOff

NextSync ==
    \/ DaemonAccept(1)
    \/ DaemonSweep(1)
    \/ DaemonSyncEvents(1)
    \/ DaemonSyncSandboxToMeta(1)
    \/ DaemonSyncMetaToHost(1)
    \/ DaemonSyncMain(1)
    \/ DaemonFinalSandboxToMeta(1)
    \/ DaemonFinalMetaToHost(1)
    \/ DaemonStopContainer(1)
    \/ DaemonCleanup(1)
    \/ ClientDisconnect(1)
    \/ SandboxCommit
    \/ SandboxAmend
    \/ SandboxAccess
    \/ HostCommit
    \/ HostAmend
    \/ EnsureSecondSandbox

SpecSync == InitSync /\ [][NextSync]_vars

\* SpecSd: the standalone sync loop of sync.rs next to a running container
InitSd ==
    /\ sock_file = NoFile
    /\ tmp_file = NoFile
    /\ spawned = 0
    /\ d_pc = [d \in Daemons |-> "unspawned"]
    /\ d_exit = [d \in Daemons |-> "none"]
    /\ listening = [d \in Daemons |-> FALSE]
    /\ backlog = [d \in Daemons |-> <<>>]
    /\ pending_clients = [d \in Daemons |-> <<>>]
    /\ clients = [d \in Daemons |-> <<>>]
    /\ container_started = [d \in Daemons |-> FALSE]
    /\ watching = [d \in Daemons |-> FALSE]
    /\ rx = [d \in Daemons |-> <<>>]
    /\ unsynced = [d \in Daemons |-> "none"]
    /\ pending_sync = [d \in Daemons |-> FALSE]
    /\ start_calls = [d \in Daemons |-> 0]
    /\ stop_calls = [d \in Daemons |-> 0]
    /\ stops = <<>>
    /\ container_running = TRUE
    /\ c_pc = [c \in Clients |-> "init"]
    /\ conn = [c \in Clients |-> 0]
    /\ handshake_failed = [c \in Clients |-> 0]
    /\ written = [c \in Clients |-> <<>>]
    /\ srv_open = [c \in Clients |-> FALSE]
    /\ cli_open = [c \in Clients |-> FALSE]
    /\ GitInit
    /\ wire = WireOff
    /\ store = NoStore
    /\ att = NoAttachment
    /\ naming = NoNaming
    /\ sd_pc = "recv"
    /\ sd_rx = <<>>
    /\ sd_pending_sync = FALSE
    /\ SdClockInit

NextSd ==
    \/ ClockTick
    \/ SdRecv
    \/ SdSyncSandboxToMeta
    \/ SdSyncMetaToHost
    \/ SdSyncMain
    \/ SdContainerCheck
    \/ AttachedProcessStopsContainer
    \/ SandboxCommit
    \/ SandboxAmend
    \/ SandboxAccess

SpecSd == InitSd /\ [][NextSd]_vars

\* SpecServe: the lifetime of one daemon.  Daemon 1 has just published its
\* socket; client 1, which launched it, polls for the socket file and the
\* other clients arrive later.  A client that finds the socket gone after
\* the daemon has left would launch another daemon, which is outside this
\* specification.  The loop runs again after every 100 ms sleep
\* (daemon.rs:540), hence weak fairness of the daemon's steps
InitServe ==
    /\ sock_file = 1
    /\ tmp_file = NoFile
    /\ spawned = 1
    /\ d_pc = [d \in Daemons |-> IF d = 1 THEN "accept" ELSE "unspawned"]
    /\ d_exit = [d \in Daemons |-> "none"]
    /\ listening = [d \in Daemons |-> d = 1]
    /\ backlog = [d \in Daemons |-> <<>>]
    /\ pending_clients = [d \in Daemons |-> <<>>]
    /\ clients = [d \in Daemons |-> <<>>]
    /\ container_started = [d \in Daemons |-> FALSE]
    /\ watching = [d \in Daemons |-> FALSE]
    /\ rx = [d \in Daemons |-> <<>>]
    /\ unsynced = [d \in Daemons |-> "none"]
    /\ pending_sync = [d \in Daemons |-> FALSE]
    /\ start_calls = [d \in Daemons |-> 0]
    /\ stop_calls = [d \in Daemons |-> 0]
    /\ stops = <<>>
    /\ container_running = FALSE
    /\ c_pc = [c \in Clients |-> IF c = 1 THEN "wait_socket" ELSE "init"]
    /\ conn = [c \in Clients |-> 0]
    /\ handshake_failed = [c \in Clients |-> 0]
    /\ written = [c \in Clients |-> <<>>]
    /\ srv_open = [c \in Clients |-> FALSE]
    /\ cli_open = [c \in Clients |-> FALSE]
    /\ GitInit
    /\ wire = WireOff
    /\ store = NoStore
    /\ att = NoAttachment
    /\ naming = NoNaming
    /\ SdOff

NextServe ==
    \/ DaemonLoopStep(1)
    \/ \E c \in Clients : ClientSessionStep(c)

SpecServe == InitServe /\ [][NextServe]_vars /\ WF_vars(DaemonLoopStep(1))

\* SpecLaunch: the launch race alone.  Clients run connect_or_launch and
\* keep the connection they get; the daemons they spawn publish their
\* sockets and serve
DaemonServeStep(d) ==
    \/ BindRemoveStale(d)
    \/ BindTemp(d)
    \/ BindHardLink(d)
    \/ BindRemoveTemp(d)
    \/ DaemonAccept(d)
    \/ DaemonStartContainer(d)
    \/ DaemonStartWatcher(d)
    \/ DaemonSweep(d)
    \/ DaemonSyncEvents(d)
    \/ DaemonSyncMain(d)

ClientLaunchStep(c) ==
    \/ ClientCheckExists(c)
    \/ ClientConnectExisting(c)
    \/ ClientWaitReadyExisting(c)
    \/ ClientWaitSocketRemoval(c)
    \/ ClientSpawnDaemon(c)
    \/ ClientWaitSocket(c)
    \/ ClientConnectLaunched(c)
    \/ ClientWaitReadyLaunched(c)

NextLaunch ==
    \/ \E d \in Daemons : DaemonServeStep(d)
    \/ \E c \in Clients : ClientLaunchStep(c)

SpecLaunch == Init /\ [][NextLaunch]_vars

\* the sweep that ends the daemon by the first-client timeout
DaemonFirstClientTimeout(d) == DaemonSweep(d) /\ d_exit'[d] = "ok_timeout"

\* SpecServeTimed: SpecServe with the wall clock running on.  Every pass of
\* the loop sleeps 100 ms (daemon.rs:540), so a daemon that keeps finding
\* the first-client timeout check applicable finds start.elapsed() beyond
\* FIRST_CLIENT_TIMEOUT after finitely many passes: strong fairness of that
\* exit
SpecServeTimed == SpecServe /\ SF_vars(DaemonFirstClientTimeout(1))

\* SpecWire: one exchange of the wire protocol for every sandbox name and
\* params within the bounds; no daemon runs
InitWire ==
    /\ sock_file = NoFile
    /\ tmp_file = NoFile
    /\ spawned = 0
    /\ d_pc = [d \in Daemons |-> "unspawned"]
    /\ d_exit = [d \in Daemons |-> "none"]
    /\ listening = [d \in Daemons |-> FALSE]
    /\ backlog = [d \in Daemons |-> <<>>]
    /\ pending_clients = [d \in Daemons |-> <<>>]
    /\ clients = [d \in Daemons |-> <<>>]
    /\ container_started = [d \in Daemons |-> FALSE]
    /\ watching = [d \in Daemons |-> FALSE]
    /\ rx = [d \in Daemons |-> <<>>]
    /\ unsynced = [d \in Daemons |-> "none"]
    /\ pending_sync = [d \in Daemons |-> FALSE]
    /\ start_calls = [d \in Daemons |-> 0]
    /\ stop_calls = [d \in Daemons |-> 0]
    /\ stops = <<>>
    /\ container_running = FALSE
    /\ c_pc = [c \in Clients |-> "init"]
    /\ conn = [c \in Clients |-> 0]
    /\ handshake_failed = [c \in Clients |-> 0]
    /\ written = [c \in Clients |-> <<>>]
    /\ srv_open = [c \in Clients |-> FALSE]
    /\ cli_open = [c \in Clients |-> FALSE]
    /\ parent = [k \in Commits |-> NoRef]
    /\ n_commits = 1
    /\ host_main = 1
    /\ meta_main = 1
    /\ clone_ref = 1
    /\ meta_ref = NoRef
    /\ host_remote_ref = NoRef
    /\ sb2 = NoSandbox
    /\ SdOff
    /\ store = NoStore
    /\ att = NoAttachment
    /\ naming = NoNaming
    /\ \E name \in Strings, params \in SandboxParamsSet :
         wire = [WireOff EXCEPT !.pc = "send", !.sandbox_name = name,
                                !.params = params]

NextWire ==
    \/ WireSendRequest
    \/ WireReadRequest
    \/ WireSendResponse
    \/ WireReadResponse

SpecWire == InitWire /\ [][NextWire]_vars

\* SpecEnsure: ensure_sandbox is called for the second sandbox name time
\* and again while the clock runs and the host's primary branch is
\* committed to and rewritten
NextEnsure ==
    \/ EnsureSecondSandbox
    \/ EnsureSandboxAgain
    \/ HostCommit
    \/ HostAmend
    \/ ClockTick

SpecEnsure == InitSync /\ [][NextEnsure]_vars

\* SpecServeSync: the lifetime of daemon 1 from before its first client,
\* with the sandbox branch committed to and read once the container runs
NextServeSync ==
    \/ NextServe
    \/ DaemonSyncSandboxToMeta(1)
    \/ DaemonSyncMetaToHost(1)
    \/ SandboxCommit
    \/ SandboxAccess

SpecServeSync == InitServe /\ [][NextServeSync]_vars

\* SpecHandover: daemon 1 has served its clients, found none left at
\* daemon.rs:473 and broken out of the loop; its socket is still published
\* and its listener open while new clients run connect_or_launch
InitHandover ==
    /\ sock_file = 1
    /\ tmp_file = NoFile
    /\ spawned = 1
    /\ d_pc = [d \in Daemons |-> IF d = 1 THEN "final_s2m" ELSE "unspawned"]
    /\ d_exit = [d \in Daemons |-> "none"]
    /\ listening = [d \in Daemons |-> d = 1]
    /\ backlog = [d \in Daemons |-> <<>>]
    /\ pending_clients = [d \in Daemons |-> <<>>]
    /\ clients = [d \in Daemons |-> <<>>]
    /\ container_started = [d \in Daemons |-> d = 1]
    /\ watching = [d \in Daemons |-> d = 1]
    /\ rx = [d \in Daemons |-> <<>>]
    /\ unsynced = [d \in Daemons |-> "none"]
    /\ pending_sync = [d \in Daemons |-> FALSE]
    /\ start_calls = [d \in Daemons |-> IF d = 1 THEN 1 ELSE 0]
    /\ stop_calls = [d \in Daemons |-> 0]
    /\ stops = <<>>
    /\ container_running = TRUE
    /\ c_pc = [c \in Clients |-> "init"]
    /\ conn = [c \in Clients |-> 0]
    /\ handshake_failed = [c \in Clients |-> 0]
    /\ written = [c \in Clients |-> <<>>]
    /\ srv_open = [c \in Clients |-> FALSE]
    /\ cli_open = [c \in Clients |-> FALSE]
    /\ GitInit
    /\ wire = WireOff
    /\ store = NoStore
    /\ att = NoAttachment
    /\ naming = NoNaming
    /\ SdOff

SpecHandover == InitHandover /\ [][Next]_vars

\* SpecAttach: processes run run_sandbox on one sandbox at once
NextAttach ==
    \E p \in Procs :
        \/ AttEnsureContainerRunning(p)
        \/ AttWritePidFile(p)
        \/ AttExecReturns(p)
        \/ AttRemovePidFile(p)
        \/ AttCheckOthers(p)
        \/ AttStopContainer(p)

SpecAttach == Init /\ [][NextAttach]_vars

\* SpecNames: two sandboxes, of one repository or of two, with the host on
\* any branch
InitNames ==
    /\ sock_file = NoFile
    /\ tmp_file = NoFile
    /\ spawned = 0
    /\ d_pc = [d \in Daemons |-> "unspawned"]
    /\ d_exit = [d \in Daemons |-> "none"]
    /\ listening = [d \in Daemons |-> FALSE]
    /\ backlog = [d \in Daemons |-> <<>>]
    /\ pending_clients = [d \in Daemons |-> <<>>]
    /\ clients = [d \in Daemons |-> <<>>]
    /\ container_started = [d \in Daemons |-> FALSE]
    /\ watching = [d \in Daemons |-> FALSE]
    /\ rx = [d \in Daemons |-> <<>>]
    /\ unsynced = [d \in Daemons |-> "none"]
    /\ pending_sync = [d \in Daemons |-> FALSE]
    /\ start_calls = [d \in Daemons |-> 0]
    /\ stop_calls = [d \in Daemons |-> 0]
    /\ stops = <<>>
    /\ container_running = FALSE
    /\ c_pc = [c \in Clients |-> "init"]
    /\ conn = [c \in Clients |-> 0]
    /\ handshake_failed = [c \in Clients |-> 0]
    /\ written = [c \in Clients |-> <<>>]
    /\ srv_open = [c \in Clients |-> FALSE]
    /\ cli_open = [c \in Clients |-> FALSE]
    /\ GitInit
    /\ wire = WireOff
    /\ store = NoStore
    /\ att = NoAttachment
    /\ SdOff
    /\ \E r1 \in RepoRoots, r2 \in RepoRoots, n1 \in SandboxNames,
          n2 \in SandboxNames, head \in HeadBranches, has_main \in BOOLEAN :
         naming = [NoNaming EXCEPT !.repo_root = <<r1, r2>>, !.name = <<n1, n2>>,
                                   !.head = head, !.has_main = has_main]

NextNames ==
    \/ \E i \in {1, 2} : SandboxInfoNew(i)
    \/ NamingSyncMainToMeta
    \/ \E i \in {1, 2} : NamingSyncSandboxToMeta(i)

SpecNames == InitNames /\ [][NextNames]_vars

\* SpecStore: the sandboxes of one repository are made, used and deleted
NextStore ==
    \E n \in Boxes :
        \/ StoreEnsure(n)
        \/ StoreStartContainer(n)
        \/ StoreSync(n)
        \/ DeleteSandbox(n)

SpecStore == Init /\ [][NextStore]_vars

\* ================================================================ claims
\* c holds the ready signal of daemon d on a stream it has not closed
AckedOpen(c, d) == conn[c] = d /\ cli_open[c] /\ written[c] # <<>>

\* daemon d is past start_container and the watcher setup, inside its loop
Running(d) ==
    /\ d_pc[d] \in LoopPcs \ {"start", "watch"}
    /\ container_started[d]

\* daemon d went through the whole teardown: final sync, stop_container,
\* cleanup_socket, return Ok
Drained(d) == d_pc[d] = "exited" /\ d_exit[d] = "ok_drained" /\ stop_calls[d] = 1

\* C1: when several clients run connect_or_launch at once and each spawns
\* its own daemon, exactly one daemon ends up listening on the published
\* path, every other one has left, and every client is connected to that
\* daemon and gets its ready signal.  Stated for runs in which no wait timed
\* out, no client was killed or has disconnected, and neither the container
\* start nor the watcher setup failed.
C1_OneDaemonServesAll ==
    ( /\ \A c \in Clients : c_pc[c] \in {"acked", "err_connect", "err_ready"}
      /\ \A d \in Daemons : d_exit[d] \notin {"err_start", "err_watcher", "ok_timeout"}
      /\ \A d \in Daemons : d_pc[d] \in {"unspawned", "exited"} \cup LoopPcs )
    => /\ \A c \in Clients : c_pc[c] = "acked" /\ conn[c] = sock_file
       /\ Connectable(sock_file)
       /\ \A d \in Daemons : d_pc[d] \in LoopPcs => sock_file = d

\* C2: the socket path is connectable only while some process holds the
\* lock daemon.lock
C2_SocketOnlyUnderLock == Connectable(sock_file) => LockHolders # {}

\* C3: while the container is running and a client that got the ready
\* signal still has its connection open, the daemon that serves it is in
\* its accept loop and has not stopped the container
C3_NoStopWhileClientConnected ==
    \A d \in Daemons : \A c \in Clients :
        (container_running /\ AckedOpen(c, d))
        => (d_pc[d] \in LoopPcs /\ stop_calls[d] = 0)

\* C4: once every client stream of a running daemon has been closed by its
\* client, the daemon leaves the accept loop, stops the container, removes
\* the socket and terminates, unless a new client connects first
C4_DrainsAfterLastDisconnect ==
    \A d \in Daemons :
        (Running(d) /\ \A c \in Clients : conn[c] = d => ~cli_open[c])
        ~> (Drained(d) \/ \E c \in Clients : conn[c] = d /\ cli_open[c])

\* a daemon that served a client has drained after the client disconnected
C4_Witness ==
    \E d \in Daemons : \E c \in Clients :
        Drained(d) /\ conn[c] = d /\ c_pc[c] = "closed" /\ ~container_running

\* C5: a client that finds a socket file nobody listens on has it removed
\* and replaced by a fresh daemon: when its connect_or_launch returns, the
\* stale file is gone and the client holds a ready signal
C5_StaleSocketReplaced ==
    \A c \in Clients :
        ClientReturned(c) => (sock_file # StaleIno /\ c_pc[c] \in {"acked", "closed"})

\* C6: a sync pass always overwrites what an earlier pass stored, also when
\* the sandbox branch was rewritten to a commit that does not descend from
\* the stored one: the step that fetches the sandbox branch into the hub
\* leaves the hub ref at the sandbox tip, and the step that fetches the hub
\* branch into the host leaves the tracking ref at the hub ref
C6_SyncOverwritesAfterRewrite ==
    [][ \A d \in Daemons :
          /\ (d_pc[d] = "sync_s2m" /\ d_pc'[d] # "sync_s2m")
             => meta_ref' = clone_ref
          /\ (d_pc[d] = "sync_m2h" /\ d_pc'[d] # "sync_m2h")
             => host_remote_ref' = meta_ref ]_vars

\* C7: creating a sandbox syncs the host's primary branch into the hub with
\* a forced update, so the new sandbox is created and sees the host's
\* current tip also after the host branch was amended
C7_NewSandboxSeesHostTip ==
    [][ (sb2.st = "absent" /\ sb2'.st # "absent")
        => (sb2'.st = "created" /\ sb2'.main = host_main /\ meta_main' = host_main) ]_vars

\* C8: when the sync loop has stopped, a commit made on the sandbox branch
\* before the stop is in the hub ref and in the host's tracking ref
C8_FinalSyncWhenLoopStops ==
    (sd_pc = "exited" /\ n_commits > 1)
    => (meta_ref = clone_ref /\ host_remote_ref = clone_ref)

\* C9: a daemon calls start_container at most once, and a client it accepts
\* after the container is up gets the ready signal in the accept step,
\* without a second start
C9_StartAtMostOnce ==
    [][ \A d \in Daemons :
          /\ start_calls'[d] <= 1
          /\ (d_pc[d] = "accept" /\ container_started[d] /\ backlog[d] # <<>>)
             => /\ start_calls'[d] = start_calls[d]
                /\ d_pc'[d] = d_pc[d] \/ d_pc'[d] = "sweep"
                /\ \A c \in Clients :
                     (d_pc'[d] = "sweep" /\ c = Head(backlog[d]) /\ cli_open[c])
                     => (written'[c] = <<0>> /\ c \in Range(clients'[d])) ]_vars

\* a daemon serves two clients, the second one accepted after its only start
C9_Witness ==
    \E d \in Daemons : Len(clients[d]) = 2 /\ start_calls[d] = 1 /\ container_running

\* C10: when start_container fails, every client queued at that moment is
\* sent an error response (not the ready signal), the socket file is
\* removed and the daemon terminates without a second start
C10_StartFailureAnswersQueued ==
    [][ \A d \in Daemons :
          (d_pc[d] = "start" /\ d_exit'[d] = "err_start")
          => /\ \A c \in Range(pending_clients[d]) :
                  \E i \in DOMAIN written'[c] : written'[c][i] # 0
             /\ sock_file' = NoFile
             /\ d_pc'[d] = "exited"
             /\ start_calls'[d] = 1 ]_vars

\* C11: a daemon that has published its socket and to which no client ever
\* connects ends by the first-client timeout: it returns Ok, it has never
\* called start_container, and the socket file is gone when it has left
C11_IdleDaemonTimesOut ==
    /\ [][ \A d \in Daemons :
             (d_exit[d] # "ok_timeout" /\ d_exit'[d] = "ok_timeout")
             => /\ d_pc'[d] = "exited"
                /\ start_calls'[d] = 0
                /\ ~container_started'[d]
                /\ stop_calls'[d] = 0
                /\ sock_file' = NoFile ]_vars
    /\ \A d \in Daemons :
         (d_pc[d] \in {"accept", "sweep"} /\ start_calls[d] = 0)
         ~> (d_exit[d] = "ok_timeout" \/ \E c \in Clients : conn[c] = d)

\* the daemon timed out and no client ever connected to it
C11_Witness ==
    \E d \in Daemons :
        /\ d_exit[d] = "ok_timeout"
        /\ sock_file = NoFile
        /\ \A c \in Clients : conn[c] # d

\* daemon d leaves the step it is at
Leaves(d, pc) == d_pc[d] = pc /\ d_pc'[d] # pc

\* C12: every sync cycle runs its sub-steps in the order (1) sandbox clone
\* -> hub, (2) host primary branch -> hub, (3) hub -> host tracking ref,
\* (4) hub -> sandbox clone: step 1 is followed by step 2, step 2 by step 3
\* and step 3 by step 4
C12_SyncStepOrder ==
    [][ \A d \in Daemons :
          /\ Leaves(d, "sync_s2m") => d_pc'[d] = "sync_main"
          /\ Leaves(d, "sync_main") => d_pc'[d] = "sync_m2h"
          /\ Leaves(d, "sync_m2h") => d_pc'[d] = "sync_back" ]_vars

\* C13: when the sandbox -> hub fetch of a sync pass fails, the hub -> host
\* fetch of the same pass is still attempted, in the debounced pass and in
\* the final pass
C13_FailedStepDoesNotAbortPass ==
    [][ \A d \in Daemons :
          /\ (Leaves(d, "sync_s2m") /\ ~sync_sandbox_to_meta_ok)
             => d_pc'[d] = "sync_m2h"
          /\ (Leaves(d, "final_s2m") /\ ~sync_sandbox_to_meta_ok)
             => d_pc'[d] = "final_m2h" ]_vars

\* C14: a failed sync step does not end the daemon and drops no client,
\* and the sync stays pending, so that the next cycle retries it without a
\* new watcher event
C14_FailedSyncIsRetried ==
    [][ \A d \in Daemons :
          (Leaves(d, "sync_s2m") /\ ~sync_sandbox_to_meta_ok)
          => /\ d_pc'[d] \in LoopPcs
             /\ clients'[d] = clients[d]
             /\ pending_sync'[d] ]_vars

\* C15: on draining the teardown is ordered: stop_container is issued only
\* after the final sync pass, with the socket file still in place; the
\* socket is removed only after the stop, by the step that ends the process
C15_TeardownOrder ==
    [][ \A d \in Daemons :
          /\ (d_pc'[d] = "stop" /\ d_pc[d] # "stop")
             => d_pc[d] \in {"final_s2m", "final_m2h"}
          /\ (d_pc'[d] = "final_m2h" /\ d_pc[d] # "final_m2h")
             => (d_pc[d] = "final_s2m" /\ sync_sandbox_to_meta_ok)
          /\ stop_calls'[d] # stop_calls[d]
             => /\ d_pc[d] = "stop" /\ d_pc'[d] = "cleanup"
                /\ sock_file' = sock_file /\ sock_file = d
                /\ ~container_running'
          /\ (d_pc[d] \in TeardownPcs /\ sock_file' # sock_file)
             => /\ d_pc[d] = "cleanup" /\ stop_calls[d] = 1
                /\ sock_file' = NoFile
                /\ d_pc'[d] = "exited" /\ d_exit'[d] = "ok_drained" ]_vars

\* a drained daemon whose final sync pass carried a sandbox commit to the
\* host before the container was stopped
C15_Witness ==
    \E d \in Daemons :
        /\ Drained(d) /\ sock_file = NoFile /\ ~container_running
        /\ clone_ref # 1 /\ meta_ref = clone_ref /\ host_remote_ref = clone_ref

\* C16: a daemon that finds the public socket path taken when it publishes
\* aborts: it does not touch the public path, never enters the accept loop
\* and never starts a container; and a published socket is never replaced by
\* another one, it can only be removed
C16_PublicationIsAtomic ==
    [][ /\ sock_file # NoFile => sock_file' \in {sock_file, NoFile}
        /\ \A d \in Daemons :
             /\ (Leaves(d, "link") /\ sock_file # NoFile)
                => /\ d_pc'[d] \in {"unlink_lost", "unlink_err"}
                   /\ sock_file' = sock_file
             /\ (d_pc[d] \in {"unlink_lost", "unlink_err"} /\ d_pc'[d] # d_pc[d])
                => /\ d_pc'[d] = "exited"
                   /\ d_exit'[d] \in {"err_lost", "err_publish"}
                   /\ sock_file' = sock_file
                   /\ start_calls'[d] = 0 /\ ~listening'[d] ]_vars

\* a daemon lost the publication to a daemon that still serves on the
\* public path
C16_Witness ==
    \E d \in Daemons : \E w \in Daemons :
        /\ d_exit[d] = "err_lost" /\ start_calls[d] = 0
        /\ w # d /\ sock_file = w /\ listening[w] /\ d_pc[w] \in LoopPcs

\* C17: no ready signal is written to a client of a daemon whose container
\* start has not succeeded: a client accepted before that is queued and
\* nothing is written to it, and the step in which the start succeeds writes
\* the ready signal to every queued client that is still there
C17_NoAckBeforeStart ==
    [][ /\ \A c \in Clients :
             written'[c] # <<>>
             => (conn'[c] \in Daemons /\ container_started'[conn'[c]])
        /\ \A d \in Daemons :
             /\ (Leaves(d, "accept") /\ ~container_started[d] /\ backlog[d] # <<>>)
                => /\ written' = written
                   /\ Head(backlog[d]) \in Range(pending_clients'[d])
             /\ (Leaves(d, "start") /\ container_started'[d])
                => /\ pending_clients[d] # <<>> /\ pending_clients'[d] = <<>>
                   /\ \A c \in Range(pending_clients[d]) :
                        cli_open[c] => (written'[c] = <<0>> /\ c \in Range(clients'[d])) ]_vars

\* a client that was queued during the start holds the ready signal
C17_Witness ==
    \E d \in Daemons : \E c \in Clients :
        /\ container_started[d] /\ start_calls[d] = 1
        /\ conn[c] = d /\ written[c] = <<0>> /\ clients[d] = <<c>>
        /\ c_pc[c] = "acked"

SyncStepTaken ==
    \/ \E d \in Daemons :
         /\ d_pc[d] \in {"sync_s2m", "sync_m2h", "sync_main", "final_s2m", "final_m2h"}
         /\ d_pc'[d] # d_pc[d]
    \/ sd_pc \in {"s2m", "m2h", "main"} /\ sd_pc' # sd_pc
    \/ sb2' # sb2

C21_SyncOnlyAfterDebounce ==
    sd_pc = "s2m" => sd_now - sd_pending_since >= debounce

\* C22: the sync engine performs one sync pass eagerly when it starts, as
\* soon as the container is live and before any filesystem event has been
\* observed: a daemon that has armed the watcher and finished that pass of
\* its loop has fetched the sandbox branch into meta.git
C22_EagerSyncOnStart ==
    \A d \in Daemons :
        Running(d) /\ watching[d] /\ d_pc[d] = "accept" => meta_ref # NoRef

\* the three kinds of wait of connect_or_launch (daemon.rs:139-165)
SocketWaitPcs == {"wait_removal", "wait_socket"}
ReadyWaitPcs == {"ready1", "ready2"}
ClientSocketWait(c) == ClientWaitSocketRemoval(c) \/ ClientWaitSocket(c)
ClientReadyWait(c) == ClientWaitReadyExisting(c) \/ ClientWaitReadyLaunched(c)
\* positions of connect_or_launch before spawn_daemon has returned
PreSpawnPcs == {"init", "connect1", "ready1", "wait_removal", "spawn"}

\* C23 as stated: connect_or_launch never waits forever; every wait (for
\* the socket to appear, for the socket to disappear, for the ready
\* handshake) has the 30 s timeout as a way out, whatever the daemon does
C23_EveryWaitBounded ==
    \A c \in Clients :
        /\ c_pc[c] \in SocketWaitPcs => ENABLED ClientSocketWait(c)
        /\ c_pc[c] \in ReadyWaitPcs => ENABLED ClientReadyWait(c)

\* C23 amended: the two waits on the socket path can always end, by the
\* 30 s timeout at the latest, and end either with the expected state of the
\* path or with the fatal error; the wait for the ready handshake has no
\* timeout and ends exactly when the daemon has written the ready byte or
\* closed the connection; a call spawns at most one daemon
C23_SocketWaitsBounded ==
    /\ [](\A c \in Clients :
            /\ c_pc[c] \in SocketWaitPcs => ENABLED ClientSocketWait(c)
            /\ c_pc[c] \in ReadyWaitPcs =>
                 (ENABLED ClientReadyWait(c) <=> written[c] # <<>> \/ ~srv_open[c]))
    /\ [][\A c \in Clients :
            /\ c_pc[c] = "wait_removal" /\ c_pc'[c] # c_pc[c] =>
                 c_pc'[c] = IF sock_file = NoFile THEN "spawn" ELSE "err_timeout"
            /\ c_pc[c] = "wait_socket" /\ c_pc'[c] # c_pc[c] =>
                 c_pc'[c] = IF sock_file # NoFile THEN "connect2" ELSE "err_timeout"
            /\ c_pc[c] \notin PreSpawnPcs => c_pc'[c] \notin PreSpawnPcs]_vars
    /\ [][spawned' # spawned =>
            /\ spawned' = spawned + 1
            /\ \E c \in Clients :
                 /\ c_pc[c] = "spawn" /\ c_pc'[c] = "wait_socket"
                 /\ \A o \in Clients \ {c} : c_pc'[o] = c_pc[o]]_vars

\* one call has ended with the timeout error while another is blocked in
\* the ready handshake of a daemon that has not answered yet
C23_Witness ==
    \E c, o \in Clients :
        /\ c_pc[c] = "err_timeout"
        /\ c_pc[o] \in ReadyWaitPcs /\ written[o] = <<>> /\ srv_open[o]
        /\ spawned >= 1

\* C24: after spawning a daemon, connect_or_launch waits until the socket
\* is connectable, not merely until a file exists at the socket path: when
\* wait_for_socket returns Ok, a listener is behind the path
C24_WaitsUntilConnectable ==
    [][\A c \in Clients :
         c_pc[c] = "wait_socket" /\ c_pc'[c] = "connect2" => Connectable(sock_file)]_vars

\* SpecStop: SpecSync next to a process attached by run_sandbox, which stops
\* the container when it is the last one to leave (sandbox.rs:695-702); the
\* daemon's teardown then stops a container that is already stopped
NextStop ==
    \/ NextSync
    \/ AttachedProcessStopsContainer

SpecStop == InitSync /\ [][NextStop]_vars

\* C25: stopping the container is idempotent: a stop_container call that
\* finds the container already stopped (the second of two calls in a row)
\* returns success whatever docker's exit status is, and every call leaves
\* the container stopped
C25_StopIsIdempotent ==
    /\ [](\A i \in DOMAIN stops : ~stops[i].was_running => stops[i].result = "ok")
    /\ [][Len(stops') > Len(stops) => ~container_running']_vars

\* two calls in a row; the second found the container stopped, docker
\* exited with status 1 and the call returned Ok
C25_Witness ==
    /\ Len(stops) = 2
    /\ stops[1].was_running /\ stops[1].result = "ok"
    /\ ~stops[2].was_running /\ stops[2].status = 1 /\ stops[2].result = "ok"
    /\ ~container_running

\* b is one line: it ends with its only line feed
OneLine(b) ==
    /\ Len(b) >= 1
    /\ b[Len(b)] = "LF"
    /\ \A i \in 1..(Len(b) - 1) : b[i] # "LF"

\* the exchange as far as it has got: ensure_sandbox wrote one line;
\* read_request took exactly that line from the stream and yields the
\* sandbox name and params of the call; the client took exactly the one
\* line of the response
OneMessagePerDirection ==
    /\ wire.pc \in {"read", "respond", "recv", "done"} => OneLine(wire.sent)
    /\ wire.pc \in {"respond", "recv", "done"} =>
         /\ wire.srv_line = wire.sent
         /\ wire.srv_lost = <<>>
         /\ wire.c2s = <<>>
         /\ wire.request.ok
         /\ wire.request.sandbox_name = wire.sandbox_name
         /\ wire.request.params = wire.params
    /\ wire.pc = "done" =>
         /\ OneLine(wire.cli_line)
         /\ wire.cli_line = wire.replied
         /\ wire.cli_lost = <<>>
         /\ wire.s2c = <<>>
         /\ wire.response.ok
         /\ wire.result = IF wire.response.kind = "ok" THEN "ok" ELSE "err_daemon"

\* C26 as stated: the wire protocol exchanges exactly one newline-terminated
\* message per direction, for every sandbox name and params
C26_OneLinePerDirection == OneMessagePerDirection

\* C26 amended: for every sandbox name and every params whose project_dir
\* is valid UTF-8 the exchange is one line per direction and read_request
\* yields the same name and params; for a project_dir that is not UTF-8
\* ensure_sandbox fails before it has written anything
C26_OneLinePerDirectionUtf8 ==
    IF IsUtf8(wire.params.project_dir)
    THEN OneMessagePerDirection
    ELSE wire.pc # "send" =>
           /\ wire.pc = "done" /\ wire.result = "err_serialize"
           /\ wire.sent = <<>> /\ wire.c2s = <<>> /\ wire.s2c = <<>>

\* an exchange has completed for a name and a path that need escaping
C26_Witness ==
    /\ wire.pc = "done"
    /\ wire.result = "ok"
    /\ wire.sandbox_name = <<"LF", "QUOTE">>
    /\ wire.params.project_dir = <<"BSLASH", "n">>
    /\ wire.request.sandbox_name = <<"LF", "QUOTE">>
    /\ wire.request.params.project_dir = <<"BSLASH", "n">>

\* C27: access-only filesystem events never set the pending-sync flag and
\* never cause a sync; every other event the watcher delivers sets the
\* flag.  Stated for the receive of the daemon's loop (daemon.rs:493-506)
\* and for the receive of run_sync_daemon (sync.rs:78-95)
C27_AccessEventsFiltered ==
    [][/\ \A d \in Daemons :
            Leaves(d, "sync") /\ rx[d] # <<>> /\ rx'[d] = Tail(rx[d]) =>
                IF Head(rx[d]) = "access"
                THEN /\ pending_sync'[d] = pending_sync[d]
                     /\ d_pc'[d] = "sync_s2m" => pending_sync[d]
                ELSE pending_sync'[d]
       /\ sd_pc = "recv" /\ sd_rx # <<>> /\ sd_rx' = Tail(sd_rx) =>
                IF Head(sd_rx) = "access"
                THEN sd_pending_sync' = sd_pending_sync /\ sd_pc' # "s2m"
                ELSE sd_pending_sync']_vars

\* a commit has set the flag and the sync pass is entered while an access
\* event waits in the channel
C27_Witness ==
    /\ d_pc[1] = "sync_s2m"
    /\ pending_sync[1]
    /\ rx[1] = <<"access">>
    /\ clone_ref # meta_ref

\* C28: the persisted SandboxInfo record is created once, by the first
\* ensure_sandbox for a name, and is read-only afterwards: ensure_sandbox
\* for a sandbox whose sandbox.json exists succeeds and leaves sandbox.json,
\* created_at included, unchanged
C28_RecordWrittenOnce ==
    [][sb2.created_at # NoJson /\ sb2' # sb2 =>
         sb2'.result = "ok" /\ sb2'.created_at = sb2.created_at]_vars

SyncPcs == {"sync", "sync_s2m", "sync_m2h", "sync_main", "final_s2m", "final_m2h"}

\* daemon d has a watcher, an undelivered or pending watcher event, or is
\* inside the sync section or the final sync
SyncMachineryActive(d) ==
    \/ d_pc[d] \in SyncPcs
    \/ watching[d]
    \/ rx[d] # <<>>
    \/ pending_sync[d]

\* C30: the daemon performs no git sync before its container has started
\* successfully: the watcher, its events, the pending flag, the debounced
\* sync, the periodic main-branch sync and the final sync are active only in
\* a daemon that has started the container and has not exited, and every
\* step that moves a ref of meta.git or the host's tracking ref is taken by
\* such a daemon from inside the sync section or the final sync
C30_NoSyncBeforeStart ==
    /\ [](\A d \in Daemons :
            SyncMachineryActive(d) =>
                /\ container_started[d]
                /\ start_calls[d] = 1
                /\ d_pc[d] # "exited")
    /\ [][(meta_ref' # meta_ref \/ host_remote_ref' # host_remote_ref
             \/ meta_main' # meta_main) =>
          \E d \in Daemons :
              /\ container_started[d]
              /\ d_pc[d] \in SyncPcs
              /\ d_pc'[d] # d_pc[d]]_vars

\* daemon 1 started the container, took a commit's watcher event and has
\* pushed the sandbox branch to meta.git and on to the host
C30_Witness ==
    /\ container_started[1]
    /\ start_calls[1] = 1
    /\ watching[1]
    /\ meta_ref # NoRef
    /\ host_remote_ref = meta_ref
    /\ d_pc[1] \in LoopPcs

\* client c connected to daemon d after d had left its loop through the
\* break at daemon.rs:473-476, and saw the handshake fail
SawShutdown(c, d) ==
    /\ handshake_failed[c] = d
    /\ d \in Daemons
    /\ d_exit[d] = "ok_drained"

\* C31: a client that connects to a daemon which has left its accept loop
\* to shut down never gets the ready byte from that daemon; once it has seen
\* the handshake fail, its wait for the socket to disappear ends with the
\* launch of a new daemon, and when it is acked it is acked by a new daemon,
\* which started the container after the old daemon had stopped it
C31_LateClientHandedOver ==
    /\ [][\A c \in Clients :
            written'[c] # written[c] /\ written'[c] # <<>>
                => d_pc[conn'[c]] \in LoopPcs]_vars
    /\ [][\A c \in Clients, d \in Daemons :
            SawShutdown(c, d) /\ c_pc[c] = "wait_removal" /\ c_pc'[c] # c_pc[c]
                => c_pc'[c] = "spawn"]_vars
    /\ [](\A c \in Clients, d \in Daemons :
            SawShutdown(c, d) /\ c_pc[c] = "acked"
                => /\ conn[c] # d
                   /\ container_started[conn[c]]
                   /\ stop_calls[d] = 1)

C33_ExitRemovesSocket ==
    [][\A d \in Daemons :
         d_pc[d] \in LoopPcs \cup TeardownPcs /\ d_pc'[d] = "exited"
             => sock_file' = NoFile]_vars

\* C34: whenever a daemon has exited after its container start succeeded,
\* it has called stop_container: no exit leaves the container running with
\* no daemon
C34_ExitStopsContainer ==
    \A d \in Daemons :
        d_pc[d] = "exited" /\ container_started[d] => stop_calls[d] >= 1

\* C35: when bind_socket returns a listener to daemon d, the public socket
\* path names d's own listening socket, also when several daemons run
\* bind_socket at once on the one scratch path
C35_PublishedSocketIsOwn ==
    [][\A d \in Daemons :
         d_pc[d] = "unlink_ok" /\ d_pc'[d] = "accept" => sock_file' = d]_vars

\* C36: no ref change is lost while the daemon runs: when the daemon has
\* terminated, every non-access event its watcher delivered has been
\* followed by a sync attempt that started after the event
C36_EveryEventFollowedBySync ==
    \A d \in Daemons : d_pc[d] = "exited" => unsynced[d] = "none"

\* C36, amended: every non-access event that the watcher delivered before
\* the final sync started has been followed, once the final sync has started
\* and when the daemon has terminated, by a sync attempt that started after
\* the event
C36_EventsBeforeFinalSyncFollowed ==
    \A d \in Daemons :
        FinalSyncStarted(d) \/ d_pc[d] = "exited" => unsynced[d] # "before_final"

\* the daemon has drained and terminated; the commits made in the container
\* were all followed by a sync attempt and the last one has reached the host
C36_Witness ==
    /\ Drained(1)
    /\ unsynced[1] = "none"
    /\ clone_ref # 1
    /\ meta_ref = clone_ref
    /\ host_remote_ref = clone_ref

\* C37: the sandbox -> hub sync and the host -> hub main sync never write
\* the same hub ref, whatever the sandbox is called, the host's primary
\* branch name included
C37_SyncDestinationsDiffer ==
    \A i \in {1, 2} :
        naming.main_dst # <<>> /\ naming.sandbox_dst[i] # <<>>
            => naming.main_dst # naming.sandbox_dst[i]

\* C38: in the PID-file scheme of run_sandbox an exiting process never
\* stops the container while another process is attached or attaching, that
\* is between its ensure_container_running and the end of its exec
C38_NoStopWhileOtherAttached ==
    [][\A p \in Procs :
         att.pc[p] = "stop" /\ att'.pc[p] = "done"
             => \A q \in Procs \ {p} : att.pc[q] \notin {"write_pid", "exec"}]_vars

\* C39: two sandboxes that differ in repo_root or in name never share a
\* container name or a volume prefix
C39_ContainerNamesDistinct ==
    ( /\ naming.info[1] # NoInfo
      /\ naming.info[2] # NoInfo
      /\ <<naming.repo_root[1], naming.name[1]>> # <<naming.repo_root[2], naming.name[2]>> )
    => /\ naming.info[1].container_name # naming.info[2].container_name
       /\ naming.info[1].volume_prefix # naming.info[2].volume_prefix

====
